---------------------------- MODULE Spec2Model ----------------------------
(***************************************************************************)
(* A model of hitman-commons: the RuntimeID identifier (metadata.rs), the  *)
(* hash catalogue (hash_list.rs), the reference-flag byte, the serde forms *)
(* of ResourceMetadata and to_extended (metadata.rs), and the RPKG         *)
(* metadata codec (rpkg_tool.rs).                                          *)
(*                                                                         *)
(* Representation.  A Rust &str is the sequence of its UTF-8 bytes         *)
(* (str::len counts bytes).  A u64 is the sequence of its 16 hexadecimal   *)
(* digits (nibbles, 0..15), most significant first: TLC's integers are 32  *)
(* bits wide, and every operation the code applies to a u64 (compare,      *)
(* shift by a multiple of 8, or, radix-16 parse and format) is positional  *)
(* in that representation.  A u8 is a number 0..255.                       *)
(***************************************************************************)
EXTENDS Integers, Sequences, FiniteSets, TLC

VARIABLES
    md5,            \* md5::compute on the lower-cased paths: bytes -> 16-byte digest
    call,           \* the last RuntimeID operation: its name, argument and result
    HASH_LIST,      \* hash_list.rs HASH_LIST: [version, entries]
    CUSTOM_PATHS,   \* hash_list.rs CUSTOM_PATHS: RuntimeID -> path
    loader,         \* each load_compressed call in progress
    flagcall,       \* the last ReferenceFlags operation
    flagenc,        \* a ReferenceFlags value, its encoding and the decoding of that
    meta,           \* a ResourceMetadata value and the last operation on it
    rpkg            \* the RPKG codec: its input and the last operation's result

vars == <<md5, call, HASH_LIST, CUSTOM_PATHS, loader, flagcall, flagenc, meta, rpkg>>

--------------------------------------------------------------------------
(* Bounds of the model *)

\* from_str is given strings of 16 - LenSlack .. 16 + LenSlack bytes
LenSlack == 1

\* concurrent callers of HashList::load_compressed
NumLoaders == 2

--------------------------------------------------------------------------
(* Helpers *)

Rep(c, n) == [i \in 1..n |-> c]

\* u64 '<' on the 16-nibble representation
U64Lt(a, b) ==
    \E i \in 1..16 : a[i] < b[i] /\ \A j \in 1..(i - 1) : a[j] = b[j]

\* 0x00FFFFFFFFFFFFFF
RUNTIME_ID_LIMIT == <<0, 0>> \o Rep(15, 14)

Ok(id) == [ok |-> TRUE, id |-> id, err |-> "none"]

Err(e) == [ok |-> FALSE, id |-> <<>>, err |-> e]

--------------------------------------------------------------------------
(* RuntimeID *)

\* impl TryFrom<u64> for RuntimeID, with '<=' in place of '<'
try_from_inclusive(value) ==
    IF U64Lt(value, RUNTIME_ID_LIMIT) \/ value = RUNTIME_ID_LIMIT
    THEN Ok(value)
    ELSE Err("TooHigh")

\* impl TryFrom<u64> for RuntimeID
try_from(value) ==
    IF U64Lt(value, RUNTIME_ID_LIMIT)
    THEN Ok(value)
    ELSE Err("TooHigh")

\* char::to_digit(16) on an ASCII byte; -1 is None
to_digit(c) ==
    IF c \in 48..57 THEN c - 48
    ELSE IF c \in 97..102 THEN c - 87
    ELSE IF c \in 65..70 THEN c - 55
    ELSE -1

\* u64::from_str_radix(s, 16): an optional '+', then only digits; the unsigned
\* types take no '-'.  The value is returned as 16 nibbles.
from_str_radix(s) ==
    IF Len(s) = 0 THEN Err("Empty")
    ELSE IF Len(s) = 1 /\ s[1] \in {43, 45} THEN Err("InvalidDigit")
    ELSE LET digits == IF s[1] = 43 THEN Tail(s) ELSE s
             n == Len(digits)
         IN  IF \E i \in 1..n : to_digit(digits[i]) = -1 THEN Err("InvalidDigit")
             ELSE IF \E i \in 1..(n - 16) : to_digit(digits[i]) # 0
                  THEN Err("PosOverflow")
             ELSE Ok([k \in 1..16 |->
                        IF k + n - 16 >= 1 THEN to_digit(digits[k + n - 16]) ELSE 0])

\* impl FromStr for RuntimeID
from_str(s) ==
    IF Len(s) # 16 THEN Err("InvalidLength")
    ELSE LET val == from_str_radix(s)
         IN  IF ~val.ok THEN Err("InvalidNumber")
             ELSE LET r == try_from(val.id)
                  IN  IF r.ok THEN r ELSE Err("InvalidID")

\* str::to_ascii_lowercase
to_ascii_lowercase(s) ==
    [i \in 1..Len(s) |-> IF s[i] \in 65..90 THEN s[i] + 32 ELSE s[i]]

\* from_path with the loop over 0..7: digest[i] << (8 * (7 - i)), byte 0 included
PackDigestFromByte0(digest) ==
    [k \in 1..16 |->
        LET i == (k - 1) \div 2
        IN  IF k % 2 = 1 THEN digest[i + 1] \div 16 ELSE digest[i + 1] % 16]

\* the loop of from_path: digest[i] << (8 * (7 - i)) for i in 1..8, or-ed into
\* a zero u64.  Byte i of the digest (counted from 0) lands in byte i of the
\* value counted from the most significant; byte 0 of the value stays zero.
PackDigest(digest) ==
    [k \in 1..16 |->
        LET i == (k - 1) \div 2
        IN  IF i = 0 THEN 0
            ELSE IF k % 2 = 1 THEN digest[i + 1] \div 16 ELSE digest[i + 1] % 16]

\* RuntimeID::from_path: the value is wrapped with Self(val), unchecked
from_path(path) == Ok(PackDigest(md5[to_ascii_lowercase(path)]))

\* RuntimeID::from_any
RuntimeID_from_any(val) ==
    IF Len(val) > 0 /\ val[1] = 48 THEN from_str(val) ELSE from_path(val)

\* one digit of the {:X} format
UpperHexDigit(n) == IF n < 10 THEN 48 + n ELSE 55 + n

\* one digit of the {:x} format
LowerHexDigit(n) == IF n < 10 THEN 48 + n ELSE 87 + n

\* the digits {:X} writes for a value: no leading zeros, at least one digit
UpperHex(v) ==
    LET nz == {i \in 1..16 : v[i] # 0}
        first == IF nz = {} THEN 16 ELSE CHOOSE i \in nz : \A j \in nz : i <= j
    IN  [k \in 1..(17 - first) |-> UpperHexDigit(v[first + k - 1])]

\* Display with {:016x}
DisplayLower(id) == [k \in 1..16 |-> LowerHexDigit(id[k])]

\* impl Display for RuntimeID: {:016X}, the digits padded with '0' to width 16
Display(id) ==
    LET digits == UpperHex(id)
    IN  Rep(48, 16 - Len(digits)) \o digits


--------------------------------------------------------------------------
(* Inputs of the RuntimeID operations *)

\* u64 values around the limit: 0x00FF..FE, 0x00FF..FF, 0x0100..00, ...
U64Inputs ==
    {<<a, b>> \o Rep(f, 13) \o <<l>> :
        a \in {0, 15}, b \in {0, 1, 15}, f \in {0, 7, 15}, l \in {0, 14, 15}}

\* strings of about 16 bytes over '0' 'F' 'f' '+' 'g' 'E' 'z'
HexStrings ==
    {<<c1, c2>> \o Rep(f, n - 3) \o <<l>> :
        c1 \in {48, 70, 43, 103}, c2 \in {48, 70, 102}, f \in {48, 70, 102},
        l \in {48, 69, 70, 102, 122}, n \in (16 - LenSlack)..(16 + LenSlack)}

\* "a", "A", "é", "É" (UTF-8)
Paths == {<<97>>, <<65>>, <<195, 169>>, <<195, 137>>}

\* md5("é"), md5("É"), and a digest whose bytes 1..7 are all 0xFF
DigestSet ==
    { <<102, 221, 205, 151, 207, 222, 171, 178, 246, 251, 138, 153, 155, 75, 199, 111>>,
      <<102, 152, 59, 234, 143, 193, 223, 151, 122, 23, 164, 252, 120, 196, 204, 115>>,
      <<18>> \o Rep(255, 7) \o Rep(0, 8) }

\* the strings md5::compute is applied to
LoweredPaths == {to_ascii_lowercase(p) : p \in Paths}

\* identifiers given as 16 hex digits: ...0001 and ...0002 are in a snapshot,
\* ...0003 is in none
CatalogueHashes == {Rep(48, 15) \o <<49>>, Rep(48, 15) \o <<50>>, Rep(48, 15) \o <<51>>}

\* the strings given to RuntimeID::from_str
StrInputs == HexStrings \cup CatalogueHashes

\* the strings given to RuntimeID::from_any: from_str takes those that start
\* with '0', from_path the others
AnyInputs == {s \in HexStrings : s[1] = 48} \cup Paths

\* an argument chosen by the caller, no operation applied to it yet
Pending(arg) == [op |-> "none", arg |-> arg, ret |-> Err("none"), via |-> "none", text |-> <<>>]

Called(op, arg, ret) == [op |-> op, arg |-> arg, ret |-> ret, via |-> "none", text |-> <<>>]

--------------------------------------------------------------------------
(* Hash catalogue *)

None == [some |-> FALSE, val |-> <<>>]

Some(v) == [some |-> TRUE, val |-> v]

Loaders == 1..NumLoaders

\* HASH_LIST as constructed: version 0, an empty map
EmptyHashList == [version |-> 0, entries |-> <<>>]

IdleLoader == [pc |-> "idle", doc |-> [version |-> 0, entries |-> <<>>], result |-> "none"]

\* (!s.is_empty()).then_some(s)
NonEmpty(s) == IF s = <<>> THEN None ELSE Some(s)

\* entries.into_iter().map(..).collect(): a later entry of the same hash
\* replaces an earlier one
CollectEntries(entries) ==
    [id \in {entries[i].hash : i \in 1..Len(entries)} |->
        LET last == CHOOSE i \in 1..Len(entries) :
                        /\ entries[i].hash = id
                        /\ \A j \in (i + 1)..Len(entries) : entries[j].hash # id
        IN  [resource_type |-> entries[last].resource_type,
             path |-> NonEmpty(entries[last].path),
             hint |-> NonEmpty(entries[last].hint)]]

\* RuntimeID::get_path: HASH_LIST first, CUSTOM_PATHS as the fallback
get_path(id) ==
    IF id \in DOMAIN HASH_LIST.entries /\ HASH_LIST.entries[id].path.some
    THEN HASH_LIST.entries[id].path
    ELSE IF id \in DOMAIN CUSTOM_PATHS THEN Some(CUSTOM_PATHS[id])
    ELSE None

Entry(hash, path) ==
    [resource_type |-> "TEMP", hash |-> hash, path |-> path, hint |-> <<>>, game_flags |-> 0]

\* the byte streams given to load_compressed: what Brotli and Smile make of them
Blobs ==
    { [brotli_ok |-> FALSE, smile_ok |-> FALSE, doc |-> [version |-> 0, entries |-> <<>>]],
      [brotli_ok |-> TRUE, smile_ok |-> FALSE, doc |-> [version |-> 0, entries |-> <<>>]],
      [brotli_ok |-> TRUE, smile_ok |-> TRUE,
       doc |-> [version |-> 1,
                entries |-> << Entry(<<0, 0>> \o Rep(0, 13) \o <<1>>, <<91, 120, 93>>),
                               Entry(PackDigest(<<18>> \o Rep(255, 7) \o Rep(0, 8)), <<97>>) >>]],
      [brotli_ok |-> TRUE, smile_ok |-> TRUE,
       doc |-> [version |-> 2,
                entries |-> << Entry(<<0, 0>> \o Rep(0, 13) \o <<2>>, <<>>) >>]] }

--------------------------------------------------------------------------
(* ReferenceFlags *)

RECURSIVE AndBits(_, _, _)
AndBits(a, b, i) ==
    IF i > 7 THEN 0
    ELSE (2 ^ i) * (((a \div (2 ^ i)) % 2) * ((b \div (2 ^ i)) % 2)) + AndBits(a, b, i + 1)

\* a & b on u8
BitAnd(a, b) == AndBits(a, b, 0)

Flags(t, a, l) == [reference_type |-> t, acquired |-> a, language_code |-> l]

\* ReferenceFlags::from_legacy
from_legacy(flag) ==
    LET install_dependency == BitAnd(flag, 128) = 128
        media_streamed == BitAnd(flag, 64) = 64
        state_streamed == BitAnd(flag, 32) = 32
        type_of_streaming_entity == BitAnd(flag, 16) = 16
        weak_reference == BitAnd(flag, 4) = 4
        runtime_acquired == BitAnd(flag, 2) = 2
    IN  Flags(IF type_of_streaming_entity THEN "EntityType"
              ELSE IF install_dependency THEN "Install"
              ELSE IF weak_reference THEN "Weak"
              ELSE IF media_streamed THEN "Media"
              ELSE IF state_streamed THEN "State"
              ELSE "Normal",
              runtime_acquired, 31)

\* ReferenceFlags::from_modern
from_modern(flag) ==
    Flags(CASE BitAnd(flag, 192) = 0 -> "Install"
            [] BitAnd(flag, 192) = 64 -> "Normal"
            [] BitAnd(flag, 192) = 128 -> "Weak"
            [] OTHER -> "Normal",
          BitAnd(flag, 32) # 0, BitAnd(flag, 31))

\* from_any without the media_streamed && type_of_streaming_entity test
ReferenceFlags_from_any_three_tests(flag) ==
    IF BitAnd(flag, 9) # 0 THEN from_modern(flag)
    ELSE LET install_dependency == BitAnd(flag, 128) = 128
             media_streamed == BitAnd(flag, 64) = 64
             state_streamed == BitAnd(flag, 32) = 32
             type_of_streaming_entity == BitAnd(flag, 16) = 16
             weak_reference == BitAnd(flag, 4) = 4
         IN  IF \/ install_dependency /\ weak_reference
                \/ media_streamed /\ state_streamed
                \/ state_streamed /\ type_of_streaming_entity
             THEN from_modern(flag)
             ELSE from_legacy(flag)

\* ReferenceFlags::from_any
ReferenceFlags_from_any(flag) ==
    IF BitAnd(flag, 9) # 0 THEN from_modern(flag)
    ELSE LET install_dependency == BitAnd(flag, 128) = 128
             media_streamed == BitAnd(flag, 64) = 64
             state_streamed == BitAnd(flag, 32) = 32
             type_of_streaming_entity == BitAnd(flag, 16) = 16
             weak_reference == BitAnd(flag, 4) = 4
         IN  IF \/ install_dependency /\ weak_reference
                \/ media_streamed /\ state_streamed
                \/ state_streamed /\ type_of_streaming_entity
                \/ media_streamed /\ type_of_streaming_entity
             THEN from_modern(flag)
             ELSE from_legacy(flag)

\* a flag byte chosen by the caller, no operation applied to it yet
PendingFlag(flag) == [op |-> "none", arg |-> flag, ret |-> Flags("Install", FALSE, 31)]

--------------------------------------------------------------------------
(* Operations on RuntimeID *)

\* RuntimeID::try_from(value) on the caller's u64
TryFrom ==
    /\ call.arg \in U64Inputs
    /\ call' = Called("try_from", call.arg, try_from(call.arg))
    /\ UNCHANGED <<md5, HASH_LIST, CUSTOM_PATHS, loader, flagcall, flagenc, meta, rpkg>>

\* RuntimeID::from_str(s) on the caller's string
FromStr ==
    /\ call.arg \in StrInputs
    /\ call' = Called("from_str", call.arg, from_str(call.arg))
    /\ UNCHANGED <<md5, HASH_LIST, CUSTOM_PATHS, loader, flagcall, flagenc, meta, rpkg>>

\* RuntimeID::from_any(val) on the caller's string
FromAny ==
    /\ call.arg \in AnyInputs
    /\ call' = Called("from_any", call.arg, RuntimeID_from_any(call.arg))
    /\ UNCHANGED <<md5, HASH_LIST, CUSTOM_PATHS, loader, flagcall, flagenc, meta, rpkg>>

\* RuntimeID::from_path(path): it reads neither HASH_LIST nor CUSTOM_PATHS and
\* writes nothing
FromPath(path) ==
    /\ call' = Called("from_path", path, from_path(path))
    /\ UNCHANGED <<md5, HASH_LIST, CUSTOM_PATHS, loader, flagcall, flagenc, meta, rpkg>>

\* format!("{}", id) of the RuntimeID the last constructor returned
Format ==
    /\ call.op \in {"try_from", "from_str", "from_any", "from_path"}
    /\ call.ret.ok
    /\ call' = [op |-> "display", arg |-> call.arg, ret |-> call.ret,
                via |-> call.op, text |-> Display(call.ret.id)]
    /\ UNCHANGED <<md5, HASH_LIST, CUSTOM_PATHS, loader, flagcall, flagenc, meta, rpkg>>

--------------------------------------------------------------------------
(* Operations on the hash catalogue *)

\* load_compressed storing the version before it deserialises
LoadDecode_version_first(l, data) ==
    /\ loader[l].pc = "idle"
    /\ IF ~data.brotli_ok
       THEN /\ loader' = [loader EXCEPT ![l] = [IdleLoader EXCEPT !.result = "DecompressionFailed"]]
            /\ UNCHANGED HASH_LIST
       ELSE IF ~data.smile_ok
       THEN /\ loader' = [loader EXCEPT ![l] = [IdleLoader EXCEPT !.result = "DeserialisationFailed"]]
            /\ HASH_LIST' = [HASH_LIST EXCEPT !.version = data.doc.version]
       ELSE /\ HASH_LIST' = [HASH_LIST EXCEPT !.version = data.doc.version]
            /\ loader' = [loader EXCEPT ![l] = [pc |-> "store_entries", doc |-> data.doc,
                                                result |-> "none"]]
    /\ UNCHANGED <<md5, call, CUSTOM_PATHS, flagcall, flagenc, meta, rpkg>>

\* load_compressed up to self.version.store: decompress, deserialise, and on
\* success store the version
LoadDecode(l, data) ==
    /\ loader[l].pc = "idle"
    /\ IF ~data.brotli_ok
       THEN /\ loader' = [loader EXCEPT ![l] = [IdleLoader EXCEPT !.result = "DecompressionFailed"]]
            /\ UNCHANGED HASH_LIST
       ELSE IF ~data.smile_ok
       THEN /\ loader' = [loader EXCEPT ![l] = [IdleLoader EXCEPT !.result = "DeserialisationFailed"]]
            /\ UNCHANGED HASH_LIST
       ELSE /\ HASH_LIST' = [HASH_LIST EXCEPT !.version = data.doc.version]
            /\ loader' = [loader EXCEPT ![l] = [pc |-> "store_entries", doc |-> data.doc,
                                                result |-> "none"]]
    /\ UNCHANGED <<md5, call, CUSTOM_PATHS, flagcall, flagenc, meta, rpkg>>

\* load_compressed inserting the entries into the map that is there
LoadStore_extend(l) ==
    /\ loader[l].pc = "store_entries"
    /\ HASH_LIST' = [HASH_LIST EXCEPT !.entries =
            LET new == CollectEntries(loader[l].doc.entries)
            IN  [id \in DOMAIN new \cup DOMAIN HASH_LIST.entries |->
                    IF id \in DOMAIN new THEN new[id] ELSE HASH_LIST.entries[id]]]
    /\ loader' = [loader EXCEPT ![l] = [IdleLoader EXCEPT !.result = "Ok"]]
    /\ UNCHANGED <<md5, call, CUSTOM_PATHS, flagcall, flagenc, meta, rpkg>>

\* load_compressed from self.entries.store to its return
LoadStore(l) ==
    /\ loader[l].pc = "store_entries"
    /\ HASH_LIST' = [HASH_LIST EXCEPT !.entries = CollectEntries(loader[l].doc.entries)]
    /\ loader' = [loader EXCEPT ![l] = [IdleLoader EXCEPT !.result = "Ok"]]
    /\ UNCHANGED <<md5, call, CUSTOM_PATHS, flagcall, flagenc, meta, rpkg>>

\* id.get_path() of the RuntimeID the last constructor returned
GetPath ==
    /\ call.op \in {"from_str", "from_path"}
    /\ call.ret.ok
    /\ call' = [op |-> "get_path", arg |-> call.arg, ret |-> call.ret,
                via |-> call.op, text |-> get_path(call.ret.id)]
    /\ UNCHANGED <<md5, HASH_LIST, CUSTOM_PATHS, loader, flagcall, flagenc, meta, rpkg>>

--------------------------------------------------------------------------
(* Operations on ReferenceFlags *)

\* ReferenceFlags::from_any on the caller's byte
FlagsFromAny ==
    /\ flagcall' = [op |-> "from_any", arg |-> flagcall.arg,
                    ret |-> ReferenceFlags_from_any(flagcall.arg)]
    /\ UNCHANGED <<md5, call, HASH_LIST, CUSTOM_PATHS, loader, flagenc, meta, rpkg>>

\* ReferenceFlags::from_legacy on the caller's byte
FlagsFromLegacy ==
    /\ flagcall' = [op |-> "from_legacy", arg |-> flagcall.arg,
                    ret |-> from_legacy(flagcall.arg)]
    /\ UNCHANGED <<md5, call, HASH_LIST, CUSTOM_PATHS, loader, flagenc, meta, rpkg>>

\* ReferenceFlags::from_modern on the caller's byte
FlagsFromModern ==
    /\ flagcall' = [op |-> "from_modern", arg |-> flagcall.arg,
                    ret |-> from_modern(flagcall.arg)]
    /\ UNCHANGED <<md5, call, HASH_LIST, CUSTOM_PATHS, loader, flagenc, meta, rpkg>>

--------------------------------------------------------------------------
(* Specifications *)

\* the catalogue at process start: HASH_LIST as constructed, CUSTOM_PATHS
\* empty, no load in progress
CatalogueAtStart ==
    /\ HASH_LIST = EmptyHashList
    /\ CUSTOM_PATHS = <<>>
    /\ loader = [l \in Loaders |-> IdleLoader]

\* no value of that kind is held
Unused == [op |-> "none"]

\* md5 is some function from strings to digests; the caller holds a u64 or a
\* string
InitRuntimeID ==
    /\ md5 \in [LoweredPaths -> DigestSet]
    /\ call \in {Pending(arg) : arg \in U64Inputs \cup StrInputs \cup Paths}
    /\ CatalogueAtStart
    /\ flagcall = PendingFlag(0)
    /\ flagenc = Unused
    /\ meta = Unused
    /\ rpkg = Unused

NextRuntimeID ==
    \/ TryFrom
    \/ FromStr
    \/ FromAny
    \/ \E path \in Paths : FromPath(path)
    \/ Format

\* the constructors of RuntimeID and its formatting
SpecRuntimeID == InitRuntimeID /\ [][NextRuntimeID]_vars

InitCatalogue ==
    /\ md5 \in [LoweredPaths -> DigestSet]
    /\ call \in {Pending(arg) : arg \in CatalogueHashes}
    /\ CatalogueAtStart
    /\ flagcall = PendingFlag(0)
    /\ flagenc = Unused
    /\ meta = Unused
    /\ rpkg = Unused

NextCatalogue ==
    \/ \E l \in Loaders, data \in Blobs : LoadDecode(l, data)
    \/ \E l \in Loaders : LoadStore(l)
    \/ FromStr
    \/ \E path \in Paths : FromPath(path)
    \/ GetPath

\* the catalogue: reloads, from_path and path resolution
SpecCatalogue == InitCatalogue /\ [][NextCatalogue]_vars

InitFlags ==
    /\ md5 = [s \in LoweredPaths |-> CHOOSE d \in DigestSet : TRUE]
    /\ call = Pending(<<>>)
    /\ CatalogueAtStart
    /\ flagcall \in {PendingFlag(flag) : flag \in 0..255}
    /\ flagenc = Unused
    /\ meta = Unused
    /\ rpkg = Unused

NextFlags ==
    \/ FlagsFromAny
    \/ FlagsFromLegacy
    \/ FlagsFromModern

\* the decoders of the reference-flag byte
SpecFlags == InitFlags /\ [][NextFlags]_vars

--------------------------------------------------------------------------
(* Properties of RuntimeID, under SpecRuntimeID *)

\* the hexadecimal digits 0-9, A-F, a-f
IsHexDigit(c) == c \in (48..57) \cup (65..70) \cup (97..102)

AllHexDigits(s) == \A i \in 1..Len(s) : IsHexDigit(s[i])

\* the value of a string of 16 hexadecimal digits
HexValue(s) ==
    [i \in 1..16 |-> IF s[i] <= 57 THEN s[i] - 48 ELSE IF s[i] <= 70 THEN s[i] - 55 ELSE s[i] - 87]

\* v < 0x00FFFFFFFFFFFFFF: the top byte is zero and the low 56 bits are not all ones
BelowLimit(v) == v[1] = 0 /\ v[2] = 0 /\ \E i \in 3..16 : v[i] # 15

\* str::to_uppercase on an ASCII string
AsciiUpper(s) == [i \in 1..Len(s) |-> IF s[i] \in 97..122 THEN s[i] - 32 ELSE s[i]]

\* str::to_lowercase on UTF-8 bytes, for ASCII and for the letters U+00C0..U+00DE
\* (C3 80 .. C3 9E, without the sign U+00D7)
UnicodeLower(s) ==
    [i \in 1..Len(s) |->
        IF s[i] \in 65..90 THEN s[i] + 32
        ELSE IF i > 1 /\ s[i - 1] = 195 /\ s[i] \in (128..158) \ {151} THEN s[i] + 32
        ELSE s[i]]

\* id is digest bytes 1..7, big-endian, in the low 56 bits, under a zero top byte
IsPacked(id, digest) ==
    /\ id[1] = 0 /\ id[2] = 0
    /\ \A i \in 1..7 : 16 * id[2 * i + 1] + id[2 * i + 2] = digest[i + 1]

Constructors == {"try_from", "from_str", "from_any", "from_path"}

\* C1: every RuntimeID a constructor returns (try_from, from_str, from_any,
\* from_path) wraps a value strictly less than 0x00FFFFFFFFFFFFFF, from_path
\* for every 16-byte digest.
C1_EveryIdBelowLimit ==
    call.op \in Constructors /\ call.ret.ok => BelowLimit(call.ret.id)

\* C2: try_from(v) returns the RuntimeID wrapping v if and only if
\* v < 0x00FFFFFFFFFFFFFF, and FromU64Error::TooHigh otherwise.
C2_TryFromIffBelowLimit ==
    call.op = "try_from" =>
        /\ call.ret.ok <=> BelowLimit(call.arg)
        /\ call.ret.ok => call.ret.id = call.arg
        /\ ~call.ret.ok => call.ret.err = "TooHigh"

\* try_from has accepted 0x00FFFFFFFFFFFFFE, the largest value below the limit
C2_Witness ==
    /\ call.op = "try_from"
    /\ call.arg = <<0, 0>> \o Rep(15, 13) \o <<14>>
    /\ call.ret.ok

\* C3: from_str accepts exactly the strings of 16 hexadecimal digits whose
\* value is below the limit: a length other than 16 gives InvalidLength, 16
\* bytes that are not all hexadecimal digits give InvalidNumber, 16 digits of
\* value >= 0x00FFFFFFFFFFFFFF give InvalidID, anything else the RuntimeID of
\* that value.
C3_FromStrClassifies ==
    call.op = "from_str" =>
        call.ret = IF Len(call.arg) # 16 THEN Err("InvalidLength")
                   ELSE IF ~AllHexDigits(call.arg) THEN Err("InvalidNumber")
                   ELSE IF ~BelowLimit(HexValue(call.arg)) THEN Err("InvalidID")
                   ELSE Ok(HexValue(call.arg))

\* C4: for every string s of 16 hexadecimal digits, of either case, that
\* from_str accepts, the text the RuntimeID is displayed as is s in upper case.
C4_HexRoundTrip ==
    call.op = "display" /\ call.via = "from_str" /\ AllHexDigits(call.arg) =>
        call.text = AsciiUpper(call.arg)

\* a RuntimeID parsed from a string with a lower-case digit has been displayed
C4_Witness ==
    /\ call.op = "display"
    /\ call.via = "from_str"
    /\ AllHexDigits(call.arg)
    /\ \E i \in 1..Len(call.arg) : call.arg[i] = 102

\* C5, as stated: two paths that are equal without regard to case, as
\* str::to_lowercase has it, give the same RuntimeID.
C5_CaseInsensitivePathsAgree ==
    [][ /\ call.op = "from_path"
        /\ call'.op = "from_path"
        /\ UnicodeLower(call.arg) = UnicodeLower(call'.arg)
        => call'.ret = call.ret ]_vars

\* C5, amended: two paths that are equal after ASCII lower-casing give the same
\* RuntimeID, and the value from_path returns is bytes 1..7 of the MD5 digest
\* of the ASCII-lower-cased path, big-endian, in the low 56 bits, the top
\* byte zero.
C5_AsciiCaseInsensitivePathsAgree ==
    [][ call'.op = "from_path" =>
            /\ call'.ret.ok
            /\ IsPacked(call'.ret.id, md5[to_ascii_lowercase(call'.arg)])
            /\ ( /\ call.op = "from_path"
                 /\ to_ascii_lowercase(call.arg) = to_ascii_lowercase(call'.arg)
                 => call'.ret = call.ret ) ]_vars

\* from_path("A") has returned the identifier packed from the digest of "a"
C5_Witness ==
    /\ call.op = "from_path"
    /\ call.arg = <<65>>
    /\ IsPacked(call.ret.id, md5[<<97>>])

--------------------------------------------------------------------------
(* Properties of the catalogue, under SpecCatalogue *)

\* C6: from_path(path) inserts (id, path) into CUSTOM_PATHS if and only if id
\* is not a key of HASH_LIST; the insert is insert-if-absent, and nothing is
\* ever removed.
C6_FromPathInsertsIfAbsent ==
    [][ call'.op = "from_path" /\ call' # call =>
            LET id == call'.ret.id
            IN  CUSTOM_PATHS' =
                    IF id \notin DOMAIN HASH_LIST.entries /\ id \notin DOMAIN CUSTOM_PATHS
                    THEN [x \in DOMAIN CUSTOM_PATHS \cup {id} |->
                            IF x = id THEN call'.arg ELSE CUSTOM_PATHS[x]]
                    ELSE CUSTOM_PATHS ]_vars

\* C7: get_path returns the path of the identifier's HASH_LIST entry when
\* there is one, otherwise the path in CUSTOM_PATHS, otherwise none; and after
\* from_path(p) for a p absent from the catalogue, get_path on the identifier
\* returns a path.  HASH_LIST.version = 0 says that no snapshot was ever
\* loaded: p was absent when from_path ran, and still is.
C7_GetPathResolves ==
    call.op = "get_path" =>
        LET id == call.ret.id
            inList == id \in DOMAIN HASH_LIST.entries /\ HASH_LIST.entries[id].path.some
        IN  /\ inList => call.text = HASH_LIST.entries[id].path
            /\ ~inList /\ id \in DOMAIN CUSTOM_PATHS => call.text = Some(CUSTOM_PATHS[id])
            /\ call.via = "from_path" /\ HASH_LIST.version = 0 =>
                    /\ call.text.some
                    /\ to_ascii_lowercase(call.text.val) = to_ascii_lowercase(call.arg)

--------------------------------------------------------------------------
(* Properties of ReferenceFlags, under SpecFlags *)

\* bit i of a byte
Bit(b, i) == (b \div (2 ^ i)) % 2 = 1

\* C8: from_any(b) is from_modern(b) when bit 0 or bit 3 is set, or bits 7 and
\* 2 are both set, or at least two of bits 6, 5 and 4 are set, and
\* from_legacy(b) in every other case; 0b10000010 decodes as legacy to Install
\* with acquired = true.
C8_FromAnyDisambiguates ==
    flagcall.op = "from_any" =>
        LET b == flagcall.arg
            modern == \/ Bit(b, 0) \/ Bit(b, 3)
                      \/ Bit(b, 7) /\ Bit(b, 2)
                      \/ Cardinality({i \in {4, 5, 6} : Bit(b, i)}) >= 2
        IN  /\ flagcall.ret = IF modern THEN from_modern(b) ELSE from_legacy(b)
            /\ b = 130 => flagcall.ret = Flags("Install", TRUE, 31)

\* from_any has decoded 0b10000010 to Install, acquired
C8_Witness ==
    /\ flagcall.op = "from_any"
    /\ flagcall.arg = 130
    /\ flagcall.ret = Flags("Install", TRUE, 31)

C10_FromModernLayout ==
    flagcall.op = "from_modern" =>
        LET b == flagcall.arg
        IN  flagcall.ret =
                Flags(CASE b \div 64 = 0 -> "Install"
                        [] b \div 64 = 1 -> "Normal"
                        [] b \div 64 = 2 -> "Weak"
                        [] b \div 64 = 3 -> "Weak",
                      Bit(b, 5), b % 32)

--------------------------------------------------------------------------
(* ReferenceFlags: the encoders *)

RECURSIVE OrBits(_, _, _)
OrBits(a, b, i) ==
    IF i > 7 THEN 0
    ELSE LET x == (a \div (2 ^ i)) % 2
             y == (b \div (2 ^ i)) % 2
         IN  (2 ^ i) * (IF x + y > 0 THEN 1 ELSE 0) + OrBits(a, b, i + 1)

\* a | b on u8
BitOr(a, b) == OrBits(a, b, 0)

\* a << n on u8: the bits shifted past bit 7 are lost
Shl(a, n) == (a * (2 ^ n)) % 256

\* true as u8 is 1, false as u8 is 0
AsU8(b) == IF b THEN 1 ELSE 0

\* as_legacy writing Weak into the padding bit 3
as_legacy_weak_bit3(f) ==
    LET flag == CASE f.reference_type = "Install" -> 128
                  [] f.reference_type = "Normal" -> 0
                  [] f.reference_type = "Weak" -> 8
                  [] f.reference_type = "Media" -> 64
                  [] f.reference_type = "State" -> 32
                  [] f.reference_type = "EntityType" -> 144
    IN  IF f.acquired THEN BitOr(flag, 2) ELSE flag

\* ReferenceFlags::as_legacy
as_legacy(f) ==
    LET flag == CASE f.reference_type = "Install" -> 128
                  [] f.reference_type = "Normal" -> 0
                  [] f.reference_type = "Weak" -> 4
                  [] f.reference_type = "Media" -> 64
                  [] f.reference_type = "State" -> 32
                  [] f.reference_type = "EntityType" -> 144
    IN  IF f.acquired THEN BitOr(flag, 2) ELSE flag

\* the 2-bit modern kind that as_modern writes
ModernKind(t) ==
    CASE t = "Install" -> 0
      [] t = "Normal" -> 1
      [] t = "Weak" -> 2
      [] t = "Media" -> 2
      [] t = "State" -> 1
      [] t = "EntityType" -> 0

\* as_modern shifting acquired by 4 instead of 5
as_modern_acquired_bit4(f) ==
    BitOr(BitOr(f.language_code, Shl(AsU8(f.acquired), 4)),
          Shl(ModernKind(f.reference_type), 6))

\* as_modern writing Media as kind 1
as_modern_media_as_normal(f) ==
    BitOr(BitOr(f.language_code, Shl(AsU8(f.acquired), 5)),
          Shl(IF f.reference_type = "Media" THEN 1 ELSE ModernKind(f.reference_type), 6))

\* ReferenceFlags::as_modern
as_modern(f) ==
    BitOr(BitOr(f.language_code, Shl(AsU8(f.acquired), 5)),
          Shl(ModernKind(f.reference_type), 6))

\* enum ReferenceType
ReferenceTypes == {"Install", "Normal", "Weak", "Media", "State", "EntityType"}

\* language_code is a u8 field: the 5-bit codes, and two values past them
LanguageCodes == (0..31) \cup {32, 255}

\* the ReferenceFlags values a caller can hold
FlagValues ==
    {Flags(t, a, l) : t \in ReferenceTypes, a \in BOOLEAN, l \in LanguageCodes}

\* a ReferenceFlags value held by the caller, nothing encoded yet
HeldFlags(f) == [op |-> "none", f |-> f, byte |-> 0, back |-> f]

\* f.as_modern()
AsModern ==
    /\ flagenc' = [op |-> "as_modern", f |-> flagenc.f,
                   byte |-> as_modern(flagenc.f), back |-> flagenc.f]
    /\ UNCHANGED <<md5, call, HASH_LIST, CUSTOM_PATHS, loader, flagcall, meta, rpkg>>

\* f.as_legacy()
AsLegacy ==
    /\ flagenc' = [op |-> "as_legacy", f |-> flagenc.f,
                   byte |-> as_legacy(flagenc.f), back |-> flagenc.f]
    /\ UNCHANGED <<md5, call, HASH_LIST, CUSTOM_PATHS, loader, flagcall, meta, rpkg>>

\* ReferenceFlags::from_modern(f.as_modern())
DecodeModern ==
    /\ flagenc.op = "as_modern"
    /\ flagenc' = [flagenc EXCEPT !.op = "from_modern", !.back = from_modern(flagenc.byte)]
    /\ UNCHANGED <<md5, call, HASH_LIST, CUSTOM_PATHS, loader, flagcall, meta, rpkg>>

\* ReferenceFlags::from_legacy(f.as_legacy())
DecodeLegacy ==
    /\ flagenc.op = "as_legacy"
    /\ flagenc' = [flagenc EXCEPT !.op = "from_legacy", !.back = from_legacy(flagenc.byte)]
    /\ UNCHANGED <<md5, call, HASH_LIST, CUSTOM_PATHS, loader, flagcall, meta, rpkg>>

\* ReferenceFlags::from_any(f.as_modern()), as TryFrom<RpkgResourceMeta>
\* decodes the flag byte of a reference
DecodeAny ==
    /\ flagenc.op = "as_modern"
    /\ flagenc' = [flagenc EXCEPT !.op = "from_any",
                                  !.back = ReferenceFlags_from_any(flagenc.byte)]
    /\ UNCHANGED <<md5, call, HASH_LIST, CUSTOM_PATHS, loader, flagcall, meta, rpkg>>

InitFlagCodec ==
    /\ md5 = [s \in LoweredPaths |-> CHOOSE d \in DigestSet : TRUE]
    /\ call = Pending(<<>>)
    /\ CatalogueAtStart
    /\ flagcall = PendingFlag(0)
    /\ flagenc \in {HeldFlags(f) : f \in FlagValues}
    /\ meta = Unused
    /\ rpkg = Unused

NextFlagCodec ==
    \/ AsModern
    \/ AsLegacy
    \/ DecodeModern
    \/ DecodeLegacy
    \/ DecodeAny

\* the encoders of the reference-flag byte, and decoding what they wrote
SpecFlagCodec == InitFlagCodec /\ [][NextFlagCodec]_vars

--------------------------------------------------------------------------
(* Properties of the flag encoders, under SpecFlagCodec *)

\* C11: for every byte b, with f = from_modern(b), from_modern(f.as_modern())
\* is f again.
C11_ModernRoundTrip ==
    /\ flagenc.op = "from_modern"
    /\ \E b \in 0..255 : flagenc.f = from_modern(b)
    => flagenc.back = flagenc.f

\* f = from_modern(0b11100101) = {Normal, acquired, 5} went through as_modern
\* and from_modern and came back
C11_Witness ==
    /\ flagenc.op = "from_modern"
    /\ flagenc.f = from_modern(229)
    /\ flagenc.byte = 101
    /\ flagenc.back = flagenc.f

\* C12 as stated: for every f of kind Install, Normal or Weak, with any
\* acquired value and any language code 0..31, from_legacy(f.as_legacy()) is f.
C12_LegacyRoundTrip ==
    /\ flagenc.op = "from_legacy"
    /\ flagenc.f.reference_type \in {"Install", "Normal", "Weak"}
    /\ flagenc.f.language_code \in 0..31
    => flagenc.back = flagenc.f

\* C12, amended: for every f of kind Install, Normal or Weak, with any acquired
\* value and the language code 0x1F, from_legacy(f.as_legacy()) is f; for any
\* other language code the result differs from f in language_code alone, which
\* is 0x1F.
C12_LegacyRoundTripAllLanguages ==
    /\ flagenc.op = "from_legacy"
    /\ flagenc.f.reference_type \in {"Install", "Normal", "Weak"}
    => /\ flagenc.back = [flagenc.f EXCEPT !.language_code = 31]
       /\ flagenc.f.language_code = 31 => flagenc.back = flagenc.f

\* {Weak, acquired, 0x1F} went through as_legacy (0b00000110) and from_legacy
\* and came back
C12_Witness ==
    /\ flagenc.op = "from_legacy"
    /\ flagenc.f = Flags("Weak", TRUE, 31)
    /\ flagenc.byte = 6
    /\ flagenc.back = flagenc.f

\* the kind a reference kind collapses to under the modern encoding
Collapsed(t) ==
    CASE t = "Install" -> "Install"
      [] t = "Normal" -> "Normal"
      [] t = "Weak" -> "Weak"
      [] t = "Media" -> "Weak"
      [] t = "State" -> "Normal"
      [] t = "EntityType" -> "Install"

\* C13: for every f with a language code 0..31, from_modern(f.as_modern())
\* keeps acquired and language_code and has the collapsed kind: Install, Normal
\* and Weak stay, Media becomes Weak, State becomes Normal, EntityType
\* becomes Install.
C13_ModernCollapse ==
    /\ flagenc.op = "from_modern"
    /\ flagenc.f.language_code \in 0..31
    => flagenc.back = Flags(Collapsed(flagenc.f.reference_type),
                            flagenc.f.acquired, flagenc.f.language_code)

\* {Media, acquired, 7} was re-encoded and decoded to {Weak, acquired, 7}
C13_Witness ==
    /\ flagenc.op = "from_modern"
    /\ flagenc.f = Flags("Media", TRUE, 7)
    /\ flagenc.back = Flags("Weak", TRUE, 7)

--------------------------------------------------------------------------
(* PathedID, ResourceReference and ResourceMetadata: the serde forms        *)
(*                                                                         *)
(* A ResourceType is the string of its 4 bytes.  A serialised value is the *)
(* serde data it is written as: a string (its bytes), or a map whose       *)
(* optional keys are None when the key is not written.                     *)

\* PathedID::Path(path)
PathedID_Path(path) == [kind |-> "Path", path |-> path, id |-> <<>>]

\* PathedID::Unknown(id)
PathedID_Unknown(id) == [kind |-> "Unknown", path |-> <<>>, id |-> id]

\* PathedID::from_str, and the visit_str of its Deserialize
PathedID_from_str(s) ==
    IF s # <<>> /\ s[1] = 48
    THEN LET r == from_str(s)
         IN  IF r.ok THEN [ok |-> TRUE, val |-> PathedID_Unknown(r.id)]
             ELSE [ok |-> FALSE, val |-> PathedID_Unknown(<<>>)]
    ELSE [ok |-> TRUE, val |-> PathedID_Path(s)]

\* PathedID::get_id
get_id(x) == IF x.kind = "Path" THEN from_path(x.path).id ELSE x.id

\* impl PartialEq for PathedID
PathedID_eq(x, y) == get_id(x) = get_id(y)

\* SerHex::<StrictCap> of a u64: all 16 digits, upper case, no prefix
StrictCap(v) == [k \in 1..16 |-> UpperHexDigit(v[k])]

\* Serialize for PathedID: the path, or the RuntimeID as SerHex::<StrictCap>
\* writes it
PathedID_serialize(x) == IF x.kind = "Path" THEN x.path ELSE StrictCap(x.id)

\* is_default_flags without the test of language_code
is_default_flags_any_language(val) ==
    val.reference_type = "Install" /\ ~val.acquired

\* is_default_flags
is_default_flags(val) ==
    val.reference_type = "Install" /\ ~val.acquired /\ val.language_code = 31

\* Default for ReferenceFlags
DefaultFlags == Flags("Install", FALSE, 31)

\* Serialize for ResourceReference: ResourceReferenceProxy::PathedID (a string)
\* or ::ReferenceWithFlags (a map of resource and the flattened flags, where
\* acquired is skipped if false and languageCode if all ones)
ResourceReference_serialize(r) ==
    IF is_default_flags(r.flags)
    THEN [bare |-> TRUE, resource |-> PathedID_serialize(r.resource),
          type |-> None, acquired |-> None, languageCode |-> None]
    ELSE [bare |-> FALSE, resource |-> PathedID_serialize(r.resource),
          type |-> Some(r.flags.reference_type),
          acquired |-> IF r.flags.acquired THEN Some(TRUE) ELSE None,
          languageCode |-> IF r.flags.language_code = 31 THEN None
                           ELSE Some(r.flags.language_code)]

Reference(resource, flags) == [resource |-> resource, flags |-> flags]

\* Deserialize for ResourceReference: the untagged proxy tries PathedID on a
\* string and ReferenceWithFlags on a map; a key that is absent takes the
\* serde default of its field
ResourceReference_deserialize(j) ==
    LET id == PathedID_from_str(j.resource)
    IN  IF ~id.ok THEN [ok |-> FALSE, val |-> Reference(id.val, DefaultFlags)]
        ELSE IF j.bare THEN [ok |-> TRUE, val |-> Reference(id.val, DefaultFlags)]
        ELSE [ok |-> TRUE,
              val |-> Reference(id.val,
                        Flags(IF j.type.some THEN j.type.val ELSE "Install",
                              IF j.acquired.some THEN j.acquired.val ELSE FALSE,
                              IF j.languageCode.some THEN j.languageCode.val ELSE 31))]

\* ResourceMetadata::infer_scrambled
infer_scrambled(resource_type) ==
    IF resource_type \in {"GFXV", "TEXD"} THEN FALSE ELSE TRUE

\* ResourceMetadata::infer_compressed
infer_compressed(resource_type) ==
    IF resource_type \in
        {"REPO", "ASVA", "VIDB", "GFXF", "UICB", "PRIM", "WSWB", "DLGE", "MATI", "BMSK", "TBLU",
         "AIBB", "YSHP", "MATE", "MRTN", "CRMD", "WSGB", "LOCR", "MJBA", "NAVP", "BORG", "ENUM",
         "BOXC", "CPPT", "ECPB", "FXAC", "WBNK", "ATMD", "ORES", "FXAS", "MRTR", "RTLV", "AIBZ",
         "GIDX", "AIRG", "DITL", "SDEF", "CBLU", "TEMP", "DSWB", "GFXI"}
    THEN TRUE
    ELSE IF resource_type \in {"MATB", "SCDA", "JSON", "ALOC", "MATT", "VTXD", "PREL", "WWEV"}
    THEN TRUE
    ELSE IF resource_type \in
        {"LINE", "WWES", "WWEM", "TEXT", "ERES", "GFXV", "TEXD", "WSGT", "ASET", "CLNG", "ECPT",
         "UICT", "WSWT", "AIBX", "ASEB"}
    THEN FALSE
    ELSE TRUE

Metadata(id, resource_type, compressed, scrambled, references) ==
    [id |-> id, resource_type |-> resource_type, compressed |-> compressed,
     scrambled |-> scrambled, references |-> references]

\* Serialize writing the keys compressed and scrambled whenever the field is true
ResourceMetadata_serialize_keys_when_true(m) ==
    [id |-> PathedID_serialize(m.id),
     type |-> m.resource_type,
     compressed |-> IF m.compressed THEN Some(m.compressed) ELSE None,
     scrambled |-> IF m.scrambled THEN Some(m.scrambled) ELSE None,
     references |-> [i \in 1..Len(m.references) |->
                        ResourceReference_serialize(m.references[i])]]

\* Serialize for ResourceMetadata, through ResourceMetadataProxy
ResourceMetadata_serialize(m) ==
    [id |-> PathedID_serialize(m.id),
     type |-> m.resource_type,
     compressed |-> IF m.compressed # infer_compressed(m.resource_type)
                    THEN Some(m.compressed) ELSE None,
     scrambled |-> IF m.scrambled # infer_scrambled(m.resource_type)
                   THEN Some(m.scrambled) ELSE None,
     references |-> [i \in 1..Len(m.references) |->
                        ResourceReference_serialize(m.references[i])]]

\* Deserialize for ResourceMetadata, through ResourceMetadataProxy: it fails
\* when the id, the type or a reference fails
ResourceMetadata_deserialize(j) ==
    LET id == PathedID_from_str(j.id)
        refs == [i \in 1..Len(j.references) |-> ResourceReference_deserialize(j.references[i])]
    IN  [ok |-> /\ id.ok
                /\ Len(j.type) = 4
                /\ \A i \in 1..Len(refs) : refs[i].ok,
         val |-> Metadata(id.val, j.type,
                          IF j.compressed.some THEN j.compressed.val
                          ELSE infer_compressed(j.type),
                          IF j.scrambled.some THEN j.scrambled.val
                          ELSE infer_scrambled(j.type),
                          [i \in 1..Len(refs) |-> refs[i].val])]

\* derived PartialEq of ResourceReference
ResourceReference_eq(a, b) == PathedID_eq(a.resource, b.resource) /\ a.flags = b.flags

\* derived PartialEq of ResourceMetadata
ResourceMetadata_eq(a, b) ==
    /\ PathedID_eq(a.id, b.id)
    /\ a.resource_type = b.resource_type
    /\ a.compressed = b.compressed
    /\ a.scrambled = b.scrambled
    /\ Len(a.references) = Len(b.references)
    /\ \A i \in 1..Len(a.references) : ResourceReference_eq(a.references[i], b.references[i])

\* a ResourceMetadata of the serde inputs has at most this many references
MaxSerdeRefs == 2

\* the identifiers of the serde inputs: the path "a", the path "0a", the
\* identifier ...0001, and the identifier 0x00FFFFFFFFFFFFFF that from_path
\* can return
SerdeIds ==
    {PathedID_Path(<<97>>), PathedID_Path(<<48, 97>>),
     PathedID_Unknown(Rep(0, 15) \o <<1>>), PathedID_Unknown(RUNTIME_ID_LIMIT)}

SerdeReferences ==
    {Reference(x, f) :
        x \in {PathedID_Unknown(Rep(0, 15) \o <<1>>), PathedID_Path(<<48, 97>>)},
        f \in {DefaultFlags, Flags("Install", TRUE, 31), Flags("Install", FALSE, 0),
               Flags("Weak", TRUE, 255)}}

\* LINE is never compressed, GFXV neither compressed nor scrambled, TEMP both,
\* XXXX is a type of no list
SerdeTypes == {"TEMP", "GFXV", "LINE", "XXXX"}

SerdeInputs ==
    {Metadata(id, t, c, sc, refs) :
        id \in SerdeIds, t \in SerdeTypes, c \in BOOLEAN, sc \in BOOLEAN,
        refs \in UNION {[1..n -> SerdeReferences] : n \in 0..MaxSerdeRefs}}

\* a ResourceMetadata held by the caller, nothing serialised yet
HeldMetadata(m) == [op |-> "none", m |-> m]

\* m.serialize(..)
Serialize ==
    /\ meta.op = "none"
    /\ meta' = [op |-> "serialize", m |-> meta.m, json |-> ResourceMetadata_serialize(meta.m)]
    /\ UNCHANGED <<md5, call, HASH_LIST, CUSTOM_PATHS, loader, flagcall, flagenc, rpkg>>

\* ResourceMetadata::deserialize(..) of what Serialize wrote
Deserialize ==
    /\ meta.op = "serialize"
    /\ meta' = [op |-> "deserialize", m |-> meta.m, json |-> meta.json,
                back |-> ResourceMetadata_deserialize(meta.json)]
    /\ UNCHANGED <<md5, call, HASH_LIST, CUSTOM_PATHS, loader, flagcall, flagenc, rpkg>>

\* r.serialize(..) of the first reference of m, on its own
SerializeReference ==
    /\ meta.op = "none"
    /\ meta.m.references # <<>>
    /\ meta' = [op |-> "serialize_reference", m |-> meta.m, r |-> meta.m.references[1],
                json |-> ResourceReference_serialize(meta.m.references[1])]
    /\ UNCHANGED <<md5, call, HASH_LIST, CUSTOM_PATHS, loader, flagcall, flagenc, rpkg>>

\* ResourceReference::deserialize(..) of what SerializeReference wrote
DeserializeReference ==
    /\ meta.op = "serialize_reference"
    /\ meta' = [op |-> "deserialize_reference", m |-> meta.m, r |-> meta.r, json |-> meta.json,
                back |-> ResourceReference_deserialize(meta.json)]
    /\ UNCHANGED <<md5, call, HASH_LIST, CUSTOM_PATHS, loader, flagcall, flagenc, rpkg>>

InitSerde ==
    /\ md5 = [s \in LoweredPaths |-> CHOOSE d \in DigestSet : TRUE]
    /\ call = Pending(<<>>)
    /\ CatalogueAtStart
    /\ flagcall = PendingFlag(0)
    /\ flagenc = Unused
    /\ meta \in {HeldMetadata(m) : m \in SerdeInputs}
    /\ rpkg = Unused

NextSerde ==
    \/ Serialize
    \/ Deserialize
    \/ SerializeReference
    \/ DeserializeReference

\* the serde forms of ResourceMetadata and ResourceReference
SpecSerde == InitSerde /\ [][NextSerde]_vars

--------------------------------------------------------------------------
(* Properties of the serde forms, under SpecSerde *)

\* a PathedID that PathedID::from_str returns: no Path that starts with '0',
\* no Unknown outside the range of RuntimeID
Parsed(x) ==
    IF x.kind = "Path" THEN x.path = <<>> \/ x.path[1] # 48 ELSE BelowLimit(x.id)

AllParsed(m) ==
    /\ Parsed(m.id)
    /\ \A i \in 1..Len(m.references) : Parsed(m.references[i].resource)

\* the keys compressed and scrambled are written exactly when the field
\* differs from the inferred default
KeysWhenNotInferred ==
    meta.op \in {"serialize", "deserialize"} =>
        /\ meta.json.compressed.some <=> meta.m.compressed # infer_compressed(meta.m.resource_type)
        /\ meta.json.scrambled.some <=> meta.m.scrambled # infer_scrambled(meta.m.resource_type)

\* an absent key is filled with the inferred default
AbsentKeysInferred ==
    meta.op = "deserialize" =>
        /\ ~meta.json.compressed.some =>
                meta.back.val.compressed = infer_compressed(meta.m.resource_type)
        /\ ~meta.json.scrambled.some =>
                meta.back.val.scrambled = infer_scrambled(meta.m.resource_type)

\* C14 as stated: the serialised form has the key compressed (scrambled)
\* exactly when the field differs from infer_compressed (infer_scrambled) of
\* the type, deserialising fills an absent key with the inferred default, and
\* deserialize(serialize(m)) == m for every ResourceMetadata m.
C14_MetadataRoundTrip ==
    /\ KeysWhenNotInferred
    /\ AbsentKeysInferred
    /\ meta.op = "deserialize" =>
            meta.back.ok /\ ResourceMetadata_eq(meta.back.val, meta.m)

\* C14, amended: the same, with deserialize(serialize(m)) == m for every m
\* whose identifiers (its id and the resource of each reference) are values
\* that PathedID::from_str returns.
C14_MetadataRoundTripOfParsedIds ==
    /\ KeysWhenNotInferred
    /\ AbsentKeysInferred
    /\ meta.op = "deserialize" /\ AllParsed(meta.m) =>
            meta.back.ok /\ ResourceMetadata_eq(meta.back.val, meta.m)

\* a LINE record with compressed = true and the inferred scrambled = true was
\* written with the key compressed and without the key scrambled, and came back
C14_Witness ==
    /\ meta.op = "deserialize"
    /\ AllParsed(meta.m)
    /\ meta.m.resource_type = "LINE" /\ meta.m.compressed /\ meta.m.scrambled
    /\ Len(meta.m.references) = 2
    /\ meta.json.compressed.some /\ ~meta.json.scrambled.some
    /\ meta.back.ok /\ ResourceMetadata_eq(meta.back.val, meta.m)

\* a reference is written as a bare string exactly when its flags are the
\* default, and a bare string is read back with the default flags
BareWhenDefault ==
    /\ meta.op \in {"serialize_reference", "deserialize_reference"} =>
            (meta.json.bare <=> meta.r.flags = Flags("Install", FALSE, 31))
    /\ meta.op = "deserialize_reference" /\ meta.json.bare /\ meta.back.ok =>
            meta.back.val.flags = Flags("Install", FALSE, 31)

\* C15 as stated: a ResourceReference is written as a bare identifier string
\* exactly when its flags are {Install, false, 0x1F} and as an object carrying
\* the flags otherwise, a bare identifier is read back with the default flags,
\* and deserialize(serialize(r)) == r for every reference r.
C15_ReferenceRoundTrip ==
    /\ BareWhenDefault
    /\ meta.op = "deserialize_reference" =>
            meta.back.ok /\ ResourceReference_eq(meta.back.val, meta.r)

\* C15, amended: the same, with deserialize(serialize(r)) == r for every r
\* whose resource is a value that PathedID::from_str returns.
C15_ReferenceRoundTripOfParsedIds ==
    /\ BareWhenDefault
    /\ meta.op = "deserialize_reference" /\ Parsed(meta.r.resource) =>
            meta.back.ok /\ ResourceReference_eq(meta.back.val, meta.r)

\* {...0001, {Install, false, 0}} was written as an object with the key
\* languageCode and without the key acquired, and came back
C15_Witness ==
    /\ meta.op = "deserialize_reference"
    /\ meta.r = Reference(PathedID_Unknown(Rep(0, 15) \o <<1>>), Flags("Install", FALSE, 0))
    /\ ~meta.json.bare /\ meta.json.languageCode.some /\ ~meta.json.acquired.some
    /\ meta.back.ok /\ meta.back.val = meta.r

--------------------------------------------------------------------------
(* ResourceMetadata::to_extended                                           *)
(*                                                                         *)
(* A u32 is the sequence of its 4 bytes, most significant first.  The      *)
(* outcome of a call is Ok, Err, or "panic" when the call does not return. *)

\* a small number as u32
U32(n) == <<0, 0, n \div 256, n % 256>>

\* 0xFFFFFFFF
U32_MAX == <<255, 255, 255, 255>>

Value(v) == [kind |-> "Ok", val |-> v, err |-> "none"]

Failure(e) == [kind |-> "Err", val |-> <<>>, err |-> e]

\* todo!(), or an arithmetic overflow where the build checks for it
Panic == [kind |-> "panic", val |-> <<>>, err |-> "none"]

\* the types whose system memory requirement is 0xFFFFFFFF
SystemNotApplicable ==
    {"AIBX", "AIBZ", "AIRG", "ASEB", "ASET", "ASVA", "ATMD", "BLOB", "BMSK", "BORG",
     "BOXC", "CRMD", "DITL", "DLGE", "ECPT", "ENUM", "ERES", "GFXF", "GFXI", "GFXV",
     "JSON", "LINE", "LOCR", "MATB", "MATE", "MATI", "MATT", "NAVP", "ORES", "PRIM",
     "REPO", "RTLV", "SDEF", "TEXD", "TEXT", "UICT", "VIDB", "VTXD", "WBNK", "WSGT",
     "WSWT", "WWEM", "WWES", "WWEV", "TELI", "CLNG"}

\* the types whose system memory requirement is read from the data at offset 8
SystemAtOffset8 ==
    {"AIBB", "CBLU", "CPPT", "DSWB", "ECPB", "GIDX", "TEMP", "TBLU", "UICB", "WSGB",
     "WSWB"}

\* the types whose system memory requirement is the length of the data
SystemDataLen ==
    {"FXAS", "MJBA", "MRTN", "MRTR", "SCDA"}

\* the types whose system memory rule is todo!()
SystemTodo ==
    {"FXAC", "HIKC", "IMAP", "SLMX"}

\* the types with an arm in the match of system_memory_requirement
SystemTable ==
    SystemNotApplicable \cup SystemAtOffset8 \cup SystemDataLen \cup SystemTodo
        \cup {"ALOC", "PREL", "YSHP"}

\* the match of system_memory_requirement.  Cursor::seek to 8 always succeeds;
\* read_exact fails when fewer than 4 bytes follow.  data.len() - 0x10 below
\* zero panics in a build with overflow checks and wraps in one without: the
\* cast to u32 keeps the low 32 bits.
system_memory_requirement(resource_type, data, build) ==
    IF resource_type \in SystemNotApplicable THEN Value(U32_MAX)
    ELSE IF resource_type \in SystemAtOffset8
    THEN IF Len(data) < 12 THEN Failure("Seek")
         ELSE Value(<<data[9], data[10], data[11], data[12]>>)
    ELSE IF resource_type = "ALOC" THEN Value(U32((Len(data) * 175) \div 100))
    ELSE IF resource_type \in SystemDataLen THEN Value(U32(Len(data)))
    ELSE IF resource_type = "PREL"
    THEN IF Len(data) >= 16 THEN Value(U32(Len(data) - 16))
         ELSE IF build.overflow_checks THEN Panic
         ELSE Value(<<255, 255, 255, 256 - (16 - Len(data))>>)
    ELSE IF resource_type = "YSHP" THEN Value(U32((Len(data) * 15) \div 10))
    ELSE IF resource_type \in SystemTodo THEN Panic
    ELSE Failure("UnknownResourceType")

\* the types whose video memory requirement is 0xFFFFFFFF
VideoNotApplicable ==
    {"AIBB", "AIBX", "AIBZ", "AIRG", "ASEB", "ASET", "ASVA", "ATMD", "BLOB", "BMSK",
     "BORG", "CBLU", "CLNG", "CPPT", "CRMD", "DITL", "DLGE", "DSWB", "ECPB", "ECPT",
     "ENUM", "ERES", "GFXF", "GFXI", "GFXV", "JSON", "LINE", "LOCR", "MATB", "MATE",
     "MATI", "MATT", "GIDX", "NAVP", "ORES", "PRIM", "REPO", "RTLV", "SDEF", "TBLU",
     "TELI", "TEMP", "UICB", "UICT", "VIDB", "VTXD", "WBNK", "WSGB", "WSGT", "WSWB",
     "WSWT", "WWEM", "WWES", "WWEV"}

\* the types whose video memory requirement is 0
VideoZero ==
    {"ALOC", "FXAC", "FXAS", "MJBA", "MRTN", "MRTR", "PREL", "SCDA", "YSHP"}

\* the types whose video memory rule is todo!()
VideoTodo ==
    {"BOXC", "HIKC", "IMAP", "SLMX"}

\* the types with an arm in the match of video_memory_requirement
VideoTable == VideoNotApplicable \cup VideoZero \cup VideoTodo \cup {"TEXT", "TEXD"}

\* the match of video_memory_requirement.  With the feature glacier-texture
\* the texture decoder gives a value or an error for TEXT and TEXD; without
\* it the value is 0.
video_memory_requirement(resource_type, data, build) ==
    IF resource_type \in VideoNotApplicable THEN Value(U32_MAX)
    ELSE IF resource_type \in VideoZero THEN Value(U32(0))
    ELSE IF resource_type \in {"TEXT", "TEXD"}
    THEN IF build.glacier_texture = "off" THEN Value(U32(0))
         ELSE IF build.glacier_texture = "error" THEN Failure("TextureMapError")
         ELSE Value(U32(Len(data)))
    ELSE IF resource_type \in VideoTodo THEN Panic
    ELSE Failure("UnknownResourceType")

\* to_extended taking 0xFFFFFFFF where a calculation gives no value
to_extended_guessing(m, data, build) ==
    LET sys == system_memory_requirement(m.resource_type, data, build)
        vid == video_memory_requirement(m.resource_type, data, build)
    IN  [kind |-> "Ok", err |-> "none", type |-> m.resource_type,
         ext |-> [core_info |-> m,
                  system_memory_requirement |-> IF sys.kind = "Ok" THEN sys.val ELSE U32_MAX,
                  video_memory_requirement |-> IF vid.kind = "Ok" THEN vid.val ELSE U32_MAX]]

\* ResourceMetadata::to_extended: the fields of the struct expression are
\* evaluated in order, and the first that fails or panics ends the call
to_extended(m, data, build) ==
    LET sys == system_memory_requirement(m.resource_type, data, build)
        vid == video_memory_requirement(m.resource_type, data, build)
        none == [core_info |-> m, system_memory_requirement |-> <<>>,
                 video_memory_requirement |-> <<>>]
    IN  IF sys.kind # "Ok"
        THEN [kind |-> sys.kind, err |-> sys.err, type |-> m.resource_type, ext |-> none]
        ELSE IF vid.kind # "Ok"
        THEN [kind |-> vid.kind, err |-> vid.err, type |-> m.resource_type, ext |-> none]
        ELSE [kind |-> "Ok", err |-> "none", type |-> m.resource_type,
              ext |-> [core_info |-> m, system_memory_requirement |-> sys.val,
                       video_memory_requirement |-> vid.val]]

\* the resource data given to to_extended has at most this many bytes
MaxDataLen == 17

\* data of every length up to MaxDataLen, of two contents
DataInputs == {[i \in 1..n |-> (f * i) % 256] : n \in 0..MaxDataLen, f \in {1, 37}}

\* every type of the two tables, and three types of neither
ExtendedTypes == SystemTable \cup VideoTable \cup {"XXXX", "temp", "TEXX"}

\* overflow checks on or off; the feature glacier-texture off, or on with a
\* decoder that accepts or rejects the data
Builds ==
    [overflow_checks : BOOLEAN, glacier_texture : {"off", "value", "error"}]

ExtendedInputs ==
    {Metadata(PathedID_Unknown(Rep(0, 15) \o <<1>>), t, c, TRUE, <<>>) :
        t \in ExtendedTypes, c \in BOOLEAN}

\* m.to_extended(data, game_version)
ToExtended ==
    /\ meta.op = "none"
    /\ meta' = [op |-> "to_extended", m |-> meta.m, data |-> meta.data, build |-> meta.build,
                ret |-> to_extended(meta.m, meta.data, meta.build)]
    /\ UNCHANGED <<md5, call, HASH_LIST, CUSTOM_PATHS, loader, flagcall, flagenc, rpkg>>

InitExtended ==
    /\ md5 = [s \in LoweredPaths |-> CHOOSE d \in DigestSet : TRUE]
    /\ call = Pending(<<>>)
    /\ CatalogueAtStart
    /\ flagcall = PendingFlag(0)
    /\ flagenc = Unused
    /\ meta \in {[op |-> "none", m |-> m, data |-> data, build |-> build] :
                    m \in ExtendedInputs, data \in DataInputs, build \in Builds}
    /\ rpkg = Unused

NextExtended == ToExtended

\* the memory requirements of a resource
SpecExtended == InitExtended /\ [][NextExtended]_vars

--------------------------------------------------------------------------
(* Properties of to_extended, under SpecExtended *)

\* C16: to_extended returns Err(UnknownResourceType(t)) for every type t that
\* has no rule in the system-memory table or none in the video-memory table,
\* never a value; it returns Ok only when both calculations succeed, and then
\* core_info is the input metadata unchanged.
C16_UnknownTypeIsAnError ==
    meta.op = "to_extended" =>
        LET t == meta.m.resource_type
        IN  /\ t \notin SystemTable \/ t \notin VideoTable =>
                /\ meta.ret.kind = "Err"
                /\ meta.ret.err = "UnknownResourceType"
                /\ meta.ret.type = t
            /\ meta.ret.kind = "Ok" =>
                /\ system_memory_requirement(t, meta.data, meta.build).kind = "Ok"
                /\ video_memory_requirement(t, meta.data, meta.build).kind = "Ok"
                /\ meta.ret.ext.core_info = meta.m

\* to_extended has rejected the type "temp", which is in neither table
C16_Witness ==
    /\ meta.op = "to_extended"
    /\ meta.m.resource_type = "temp"
    /\ meta.ret.kind = "Err" /\ meta.ret.err = "UnknownResourceType"

--------------------------------------------------------------------------
(* The RPKG metadata codec (rpkg_tool.rs)                                  *)
(*                                                                         *)
(* A buffer is the sequence of its bytes.  A String is the sequence of its *)
(* UTF-8 bytes.  A u64 is its 16 nibbles and a u32 its 4 bytes, both most  *)
(* significant first.                                                      *)

\* u64::to_le_bytes
u64_to_le_bytes(v) == [k \in 1..8 |-> v[17 - 2 * k] * 16 + v[18 - 2 * k]]

\* u64::from_le_bytes
u64_from_le_bytes(b) ==
    [k \in 1..16 |->
        LET byte == b[8 - ((k - 1) \div 2)]
        IN  IF k % 2 = 1 THEN byte \div 16 ELSE byte % 16]

\* u32::to_le_bytes
u32_to_le_bytes(w) == <<w[4], w[3], w[2], w[1]>>

\* u32::from_le_bytes
u32_from_le_bytes(b) == <<b[4], b[3], b[2], b[1]>>

\* a continuation byte of UTF-8
IsCont(b) == b \in 128..191

\* the bytes that may follow the lead byte b as its second byte
SecondRange(b) ==
    CASE b = 224 -> 160..191
      [] b = 237 -> 128..159
      [] b = 240 -> 144..191
      [] b = 244 -> 128..143
      [] OTHER -> 128..191

\* U+FFFD in UTF-8
REPLACEMENT == <<239, 191, 189>>

\* String::from_utf8_lossy: a valid sequence is kept, every maximal invalid
\* part is replaced by U+FFFD
RECURSIVE from_utf8_lossy(_)
from_utf8_lossy(b) ==
    IF b = <<>> THEN <<>>
    ELSE LET n == Len(b)
             rest(k) == from_utf8_lossy(SubSeq(b, k + 1, n))
         IN  IF b[1] < 128 THEN <<b[1]>> \o rest(1)
             ELSE IF b[1] \in 194..223
             THEN IF n >= 2 /\ IsCont(b[2]) THEN SubSeq(b, 1, 2) \o rest(2)
                  ELSE REPLACEMENT \o rest(1)
             ELSE IF b[1] \in 224..239
             THEN IF ~(n >= 2 /\ b[2] \in SecondRange(b[1])) THEN REPLACEMENT \o rest(1)
                  ELSE IF ~(n >= 3 /\ IsCont(b[3])) THEN REPLACEMENT \o rest(2)
                  ELSE SubSeq(b, 1, 3) \o rest(3)
             ELSE IF b[1] \in 240..244
             THEN IF ~(n >= 2 /\ b[2] \in SecondRange(b[1])) THEN REPLACEMENT \o rest(1)
                  ELSE IF ~(n >= 3 /\ IsCont(b[3])) THEN REPLACEMENT \o rest(2)
                  ELSE IF ~(n >= 4 /\ IsCont(b[4])) THEN REPLACEMENT \o rest(3)
                  ELSE SubSeq(b, 1, 4) \o rest(4)
             ELSE REPLACEMENT \o rest(1)

\* format!("{:X}", flag) of a u8: no leading zero
u8_UpperHex(v) ==
    IF v < 16 THEN <<UpperHexDigit(v)>>
    ELSE <<UpperHexDigit(v \div 16), UpperHexDigit(v % 16)>>

\* format!("{:02X}", flag) of a u8: two digits
u8_UpperHex02(v) == <<UpperHexDigit(v \div 16), UpperHexDigit(v % 16)>>

\* u8::from_str_radix(s, 16): an optional '+', then only digits, and a value
\* of at most 0xFF
u8_from_str_radix(s) ==
    IF Len(s) = 0 THEN [ok |-> FALSE, val |-> 0]
    ELSE IF Len(s) = 1 /\ s[1] \in {43, 45} THEN [ok |-> FALSE, val |-> 0]
    ELSE LET digits == IF s[1] = 43 THEN Tail(s) ELSE s
             n == Len(digits)
         IN  IF \E i \in 1..n : to_digit(digits[i]) = -1 THEN [ok |-> FALSE, val |-> 0]
             ELSE IF \E i \in 1..(n - 2) : to_digit(digits[i]) # 0 THEN [ok |-> FALSE, val |-> 0]
             ELSE [ok |-> TRUE,
                   val |-> (IF n >= 2 THEN 16 * to_digit(digits[n - 1]) ELSE 0)
                           + to_digit(digits[n])]

\* struct RpkgResourceReference
RpkgReference(hash, flag) == [hash |-> hash, flag |-> flag]

\* RpkgResourceMeta::default()
DefaultRpkgMeta ==
    [hash_offset |-> Rep(0, 16), hash_reference_data |-> <<>>,
     hash_reference_table_dummy |-> U32(0), hash_reference_table_size |-> U32(0),
     hash_resource_type |-> <<>>, hash_size |-> U32(0), hash_size_final |-> U32(0),
     hash_size_in_memory |-> U32(0), hash_size_in_video_memory |-> U32(0),
     hash_value |-> <<>>, hash_path |-> None]

\* the sizes of the nine fields of the fixed prefix, in the order from_binary
\* reads them
PrefixFields == <<8, 8, 4, 4, 4, 4, 4, 4, 4>>

\* the cursor position before field k of the prefix
RECURSIVE FieldStart(_)
FieldStart(k) == IF k = 1 THEN 0 ELSE FieldStart(k - 1) + PrefixFields[k - 1]

\* the bytes read_exact gives for field k
Field(content, k) == SubSeq(content, FieldStart(k) + 1, FieldStart(k) + PrefixFields[k])

\* hash_reference_count & 0x3FFFFFFF, as a number
MaskedCount(w) == (((w[1] % 64) * 256 + w[2]) * 256 + w[3]) * 256 + w[4]

\* a short read answered with the default record instead of an error
SeekError_tolerated == [ok |-> TRUE, err |-> "none", val |-> DefaultRpkgMeta, pos |-> 0]

\* the Err(Seek) that a failed read_exact returns through `?`: no record
SeekError == [ok |-> FALSE, err |-> "Seek", val |-> DefaultRpkgMeta, pos |-> 0]

\* RpkgResourceMeta::from_binary.  Each read_exact fails when fewer bytes are
\* left than it asks for; the loops read count flags and then count
\* identifiers.  pos is the position of the cursor at the return.
from_binary(content) ==
    LET len == Len(content)
        end == FieldStart(9) + PrefixFields[9]
    IN  IF \E k \in 1..9 : FieldStart(k) + PrefixFields[k] > len THEN SeekError
        ELSE
        LET hash_reference_table_size == u32_from_le_bytes(Field(content, 5))
            prefix ==
                [hash_value |-> Display(u64_from_le_bytes(Field(content, 1))),
                 hash_offset |-> u64_from_le_bytes(Field(content, 2)),
                 hash_size |-> u32_from_le_bytes(Field(content, 3)),
                 hash_resource_type |-> from_utf8_lossy(Field(content, 4)),
                 hash_reference_table_size |-> hash_reference_table_size,
                 hash_reference_table_dummy |-> u32_from_le_bytes(Field(content, 6)),
                 hash_size_final |-> u32_from_le_bytes(Field(content, 7)),
                 hash_size_in_memory |-> u32_from_le_bytes(Field(content, 8)),
                 hash_size_in_video_memory |-> u32_from_le_bytes(Field(content, 9)),
                 hash_reference_data |-> <<>>,
                 hash_path |-> None]
        IN  IF hash_reference_table_size = U32(0)
            THEN [ok |-> TRUE, err |-> "none", val |-> prefix, pos |-> end]
            ELSE IF end + 4 > len THEN SeekError
            ELSE
            LET hash_reference_count ==
                    MaskedCount(u32_from_le_bytes(SubSeq(content, end + 1, end + 4)))
                flags == end + 4
                references == flags + hash_reference_count
            IN  IF hash_reference_count > len - flags THEN SeekError
                ELSE IF hash_reference_count > (len - references) \div 8 THEN SeekError
                ELSE [ok |-> TRUE, err |-> "none",
                      val |-> [prefix EXCEPT !.hash_reference_data =
                                [i \in 1..hash_reference_count |->
                                    RpkgReference(
                                        Display(u64_from_le_bytes(
                                            SubSeq(content, references + 8 * i - 7,
                                                   references + 8 * i))),
                                        u8_UpperHex(content[flags + i]))]],
                      pos |-> references + 8 * hash_reference_count]

\* the Err of to_binary
EncodeError(e) == [ok |-> FALSE, err |-> e, val |-> <<>>]

\* the concatenation of a sequence of byte sequences
RECURSIVE Concat(_)
Concat(ss) == IF ss = <<>> THEN <<>> ELSE Head(ss) \o Concat(Tail(ss))

\* to_binary writing the stored hash_reference_table_size
to_binary_stored_size(self) ==
    LET n == Len(self.hash_reference_data)
        id == RuntimeID_from_any(self.hash_value)
        flag(i) == u8_from_str_radix(self.hash_reference_data[i].flag)
        hash(i) == RuntimeID_from_any(self.hash_reference_data[i].hash)
        count == U32(n)
    IN  IF ~id.ok THEN EncodeError("InvalidResourceID")
        ELSE IF \E i \in 1..n : ~flag(i).ok THEN EncodeError("InvalidHex")
        ELSE IF \E i \in 1..n : ~hash(i).ok THEN EncodeError("InvalidResourceID")
        ELSE [ok |-> TRUE, err |-> "none",
              val |-> u64_to_le_bytes(id.id)
                      \o u64_to_le_bytes(self.hash_offset)
                      \o u32_to_le_bytes(self.hash_size)
                      \o self.hash_resource_type
                      \o u32_to_le_bytes(self.hash_reference_table_size)
                      \o u32_to_le_bytes(self.hash_reference_table_dummy)
                      \o u32_to_le_bytes(self.hash_size_final)
                      \o u32_to_le_bytes(self.hash_size_in_memory)
                      \o u32_to_le_bytes(self.hash_size_in_video_memory)
                      \o (IF n = 0 THEN <<>>
                          ELSE u32_to_le_bytes(<<BitOr(count[1], 192), count[2], count[3], count[4]>>)
                               \o [i \in 1..n |-> flag(i).val]
                               \o Concat([i \in 1..n |-> u64_to_le_bytes(hash(i).id)]))]

\* to_binary writing the count without the two top bits
to_binary_plain_count(self) ==
    LET n == Len(self.hash_reference_data)
        id == RuntimeID_from_any(self.hash_value)
        flag(i) == u8_from_str_radix(self.hash_reference_data[i].flag)
        hash(i) == RuntimeID_from_any(self.hash_reference_data[i].hash)
        count == U32(n)
    IN  IF ~id.ok THEN EncodeError("InvalidResourceID")
        ELSE IF \E i \in 1..n : ~flag(i).ok THEN EncodeError("InvalidHex")
        ELSE IF \E i \in 1..n : ~hash(i).ok THEN EncodeError("InvalidResourceID")
        ELSE [ok |-> TRUE, err |-> "none",
              val |-> u64_to_le_bytes(id.id)
                      \o u64_to_le_bytes(self.hash_offset)
                      \o u32_to_le_bytes(self.hash_size)
                      \o self.hash_resource_type
                      \o (IF n = 0 THEN <<0, 0, 0, 0>> ELSE u32_to_le_bytes(U32(n * 9 + 4)))
                      \o u32_to_le_bytes(self.hash_reference_table_dummy)
                      \o u32_to_le_bytes(self.hash_size_final)
                      \o u32_to_le_bytes(self.hash_size_in_memory)
                      \o u32_to_le_bytes(self.hash_size_in_video_memory)
                      \o (IF n = 0 THEN <<>>
                          ELSE u32_to_le_bytes(count)
                               \o [i \in 1..n |-> flag(i).val]
                               \o Concat([i \in 1..n |-> u64_to_le_bytes(hash(i).id)]))]

\* RpkgResourceMeta::to_binary.  The `?` return at the first failure: the id
\* of the record, then the flags in order, then the ids of the references.
\* The two u32::try_from cannot fail for the lengths of this model.
to_binary(self) ==
    LET n == Len(self.hash_reference_data)
        id == RuntimeID_from_any(self.hash_value)
        flag(i) == u8_from_str_radix(self.hash_reference_data[i].flag)
        hash(i) == RuntimeID_from_any(self.hash_reference_data[i].hash)
        count == U32(n)
    IN  IF ~id.ok THEN EncodeError("InvalidResourceID")
        ELSE IF \E i \in 1..n : ~flag(i).ok THEN EncodeError("InvalidHex")
        ELSE IF \E i \in 1..n : ~hash(i).ok THEN EncodeError("InvalidResourceID")
        ELSE [ok |-> TRUE, err |-> "none",
              val |-> u64_to_le_bytes(id.id)
                      \o u64_to_le_bytes(self.hash_offset)
                      \o u32_to_le_bytes(self.hash_size)
                      \o self.hash_resource_type
                      \o (IF n = 0 THEN <<0, 0, 0, 0>> ELSE u32_to_le_bytes(U32(n * 9 + 4)))
                      \o u32_to_le_bytes(self.hash_reference_table_dummy)
                      \o u32_to_le_bytes(self.hash_size_final)
                      \o u32_to_le_bytes(self.hash_size_in_memory)
                      \o u32_to_le_bytes(self.hash_size_in_video_memory)
                      \o (IF n = 0 THEN <<>>
                          ELSE u32_to_le_bytes(<<BitOr(count[1], 192), count[2], count[3], count[4]>>)
                               \o [i \in 1..n |-> flag(i).val]
                               \o Concat([i \in 1..n |-> u64_to_le_bytes(hash(i).id)]))]

\* impl Display for PathedID
PathedID_to_string(x) == IF x.kind = "Path" THEN x.path ELSE Display(x.id)

\* impl From<ResourceType> for String: the 4 bytes of the type
String_from_ResourceType(t) ==
    CASE t = "TEMP" -> <<84, 69, 77, 80>>
      [] t = "GFXV" -> <<71, 70, 88, 86>>

\* 1000, 0x80000000 and their or, as u32
U32_1000 == <<0, 0, 3, 232>>

\* if compressed { 1000 } else { 0 } | if scrambled { 0x80000000 } else { 0x0 }
HashSize(compressed, scrambled) ==
    <<IF scrambled THEN 128 ELSE 0, 0,
      IF compressed THEN U32_1000[3] ELSE 0, IF compressed THEN U32_1000[4] ELSE 0>>

\* RpkgResourceMeta::from_resource_metadata
from_resource_metadata(metadata, use_legacy_flags) ==
    LET core_info == metadata.core_info
        n == Len(core_info.references)
    IN  [hash_offset |-> Rep(0, 16),
         hash_size |-> HashSize(core_info.compressed, core_info.scrambled),
         hash_size_final |-> U32_1000,
         hash_value |-> PathedID_to_string(core_info.id),
         hash_path |-> None,
         hash_size_in_memory |-> metadata.system_memory_requirement,
         hash_size_in_video_memory |-> metadata.video_memory_requirement,
         hash_resource_type |-> String_from_ResourceType(core_info.resource_type),
         hash_reference_data |->
            [i \in 1..n |->
                RpkgReference(
                    PathedID_to_string(core_info.references[i].resource),
                    u8_UpperHex02(IF use_legacy_flags
                                  THEN as_legacy(core_info.references[i].flags)
                                  ELSE as_modern(core_info.references[i].flags)))],
         hash_reference_table_size |-> IF n = 0 THEN U32(0) ELSE U32(4 + n * 9),
         hash_reference_table_dummy |-> U32(0)]

--------------------------------------------------------------------------
(* Inputs of the codec *)

\* a record given to the codec has at most this many references
MaxCodecRefs == 2

\* references of the hashes "0000000000000001" and "a" with the flags "1F",
\* "05", "5", "9f" and "G"
CodecReferences ==
    {RpkgReference(hash, flag) :
        hash \in {Rep(48, 15) \o <<49>>, <<97>>},
        flag \in {<<49, 70>>, <<48, 53>>, <<53>>, <<57, 102>>, <<71>>}}

\* the records given to to_binary: the type is "TEMP" or "TEM", the stored
\* table size is 0 or 99 whatever the references are
RpkgInputs ==
    {[hash_offset |-> Rep(0, 14) \o <<1, 2>>,
      hash_reference_data |-> refs,
      hash_reference_table_dummy |-> dummy,
      hash_reference_table_size |-> size,
      hash_resource_type |-> type,
      hash_size |-> <<128, 0, 0, 3>>,
      hash_size_final |-> U32(4),
      hash_size_in_memory |-> U32_MAX,
      hash_size_in_video_memory |-> U32(5),
      hash_value |-> hash_value,
      hash_path |-> path] :
        refs \in UNION {[1..n -> CodecReferences] : n \in 0..MaxCodecRefs},
        dummy \in {U32(0), U32_MAX},
        size \in {U32(0), U32(99)},
        type \in {<<84, 69, 77, 80>>, <<84, 69, 77>>},
        hash_value \in {Rep(48, 14) \o <<65, 66>>, Rep(48, 14) \o <<97, 98>>, <<97>>,
                        <<48, 122>> \o Rep(48, 14), <<48, 48>> \o Rep(70, 14)},
        path \in {None}}

\* the ExtendedResourceMetadata given to from_resource_metadata
ExtendedMetadataInputs ==
    {[core_info |-> Metadata(id, t, c, ~c, refs),
      system_memory_requirement |-> U32_MAX,
      video_memory_requirement |-> U32(7)] :
        id \in {PathedID_Unknown(Rep(0, 14) \o <<10, 11>>), PathedID_Path(<<97>>)},
        t \in {"TEMP", "GFXV"},
        c \in BOOLEAN,
        refs \in UNION {[1..n ->
                            {Reference(PathedID_Unknown(Rep(0, 15) \o <<1>>), f) :
                                f \in {DefaultFlags, Flags("Normal", FALSE, 31),
                                       Flags("Weak", TRUE, 5)}}] :
                        n \in 0..MaxCodecRefs}}

\* the first 16 bytes of buffers: an id, an offset, a size and a type.  The
\* ids are ...0001, 0xFFFFFFFFFFFFFFFF and 0x00FFFFFFFFFFFFFF; the types are
\* "TEMP", the bytes FF 45 4D 50 and the UTF-8 of "éAB"
BufferHeads ==
    {u64_to_le_bytes(id) \o u64_to_le_bytes(Rep(0, 14) \o <<1, 2>>) \o <<3, 0, 0, 128>> \o type :
        id \in {Rep(0, 15) \o <<1>>}, type \in {<<84, 69, 77, 80>>, <<255, 69, 77, 80>>,
                                                 <<195, 169, 65, 66>>}}
    \cup
    {u64_to_le_bytes(id) \o u64_to_le_bytes(Rep(0, 14) \o <<1, 2>>) \o <<3, 0, 0, 128>> \o type :
        id \in {Rep(15, 16), RUNTIME_ID_LIMIT}, type \in {<<84, 69, 77, 80>>}}

\* whole buffers: a head, a table size (0, 7, 13 or 22), three more words, a
\* count word (0, 1 or 2 with or without the two top bits, or 0xFFFFFFFF),
\* and the flags and ids of n references.  The flag bytes are 0x05, 0x1F,
\* 0x83, ...; the ids are ...0001, then 0xFFFFFFFFFFFFFFFF, then ...000i, or
\* all below the limit: ...00A1, ...00A2, ...
WholeBuffers ==
    LET BufferId(i) == IF i = 2 THEN Rep(15, 16) ELSE Rep(0, 15) \o <<i>>
        BufferIdBelowLimit(i) == Rep(0, 14) \o <<10, i>>
        BufferFlag(i) == IF i = 1 THEN 5 ELSE IF i = 2 THEN 31 ELSE 128 + i
    IN
    {head \o u32_to_le_bytes(size) \o <<0, 0, 0, 0>> \o <<4, 0, 0, 0>>
          \o <<255, 255, 255, 255>> \o <<5, 0, 0, 0>>
          \o u32_to_le_bytes(count)
          \o [i \in 1..n |-> BufferFlag(i)]
          \o Concat([i \in 1..n |-> u64_to_le_bytes(IF valid THEN BufferIdBelowLimit(i)
                                                       ELSE BufferId(i))]) :
        valid \in BOOLEAN,
        head \in BufferHeads,
        size \in {U32(0), U32(7), U32(13), U32(22)},
        count \in {<<192, 0, 0, 0>>, <<192, 0, 0, 1>>, <<192, 0, 0, 2>>, <<0, 0, 0, 1>>, U32_MAX},
        n \in 0..MaxCodecRefs}

\* the buffers given to from_binary: every prefix of a whole buffer
BufferInputs == UNION {{SubSeq(b, 1, k) : k \in 0..Len(b)} : b \in WholeBuffers}

\* what the caller of the codec holds before any operation
Given(kind, content, ext, legacy, m) ==
    [op |-> "none", via |-> "none", given |-> kind, content |-> content, ext |-> ext,
     legacy |-> legacy, m |-> m, enc |-> EncodeError("none"), dec |-> SeekError]

CodecInputs ==
    {Given("buffer", content, CHOOSE e \in ExtendedMetadataInputs : TRUE, FALSE, DefaultRpkgMeta) :
        content \in BufferInputs}
    \cup
    {Given("meta", <<>>, CHOOSE e \in ExtendedMetadataInputs : TRUE, FALSE, m) :
        m \in RpkgInputs}
    \cup
    {Given("extended", <<>>, ext, legacy, DefaultRpkgMeta) :
        ext \in ExtendedMetadataInputs, legacy \in BOOLEAN}

--------------------------------------------------------------------------
(* Operations of the codec *)

\* RpkgResourceMeta::from_binary(content) on the caller's buffer
FromBinary ==
    /\ rpkg.op = "none"
    /\ rpkg.given = "buffer"
    /\ rpkg' = [rpkg EXCEPT !.op = "from_binary", !.dec = from_binary(rpkg.content)]
    /\ UNCHANGED <<md5, call, HASH_LIST, CUSTOM_PATHS, loader, flagcall, flagenc, meta>>

\* RpkgResourceMeta::from_resource_metadata(metadata, use_legacy_flags)
FromResourceMetadata ==
    /\ rpkg.op = "none"
    /\ rpkg.given = "extended"
    /\ rpkg' = [rpkg EXCEPT !.op = "from_resource_metadata",
                            !.m = from_resource_metadata(rpkg.ext, rpkg.legacy)]
    /\ UNCHANGED <<md5, call, HASH_LIST, CUSTOM_PATHS, loader, flagcall, flagenc, meta>>

\* the caller pushes a reference onto hash_reference_data of a decoded record
AddReference ==
    /\ rpkg.op = "from_binary"
    /\ rpkg.dec.ok
    /\ rpkg' = [rpkg EXCEPT !.op = "mutated",
                            !.m = [rpkg.dec.val EXCEPT !.hash_reference_data =
                                    Append(@, RpkgReference(Rep(48, 15) \o <<50>>, <<49, 70>>))]]
    /\ UNCHANGED <<md5, call, HASH_LIST, CUSTOM_PATHS, loader, flagcall, flagenc, meta>>

\* the caller removes the first reference of a decoded record
RemoveReference ==
    /\ rpkg.op = "from_binary"
    /\ rpkg.dec.ok
    /\ rpkg.dec.val.hash_reference_data # <<>>
    /\ rpkg' = [rpkg EXCEPT !.op = "mutated",
                            !.m = [rpkg.dec.val EXCEPT !.hash_reference_data = Tail(@)]]
    /\ UNCHANGED <<md5, call, HASH_LIST, CUSTOM_PATHS, loader, flagcall, flagenc, meta>>

\* m.to_binary() on a record the caller built, got from from_resource_metadata,
\* or decoded and changed
ToBinary ==
    /\ \/ rpkg.op = "none" /\ rpkg.given = "meta"
       \/ rpkg.op \in {"from_resource_metadata", "mutated"}
    /\ rpkg' = [rpkg EXCEPT !.op = "to_binary", !.via = rpkg.op, !.enc = to_binary(rpkg.m)]
    /\ UNCHANGED <<md5, call, HASH_LIST, CUSTOM_PATHS, loader, flagcall, flagenc, meta>>

\* from_binary(content)?.to_binary(): the decoded record written again
ToBinaryOfFromBinary ==
    /\ rpkg.op = "from_binary"
    /\ rpkg.dec.ok
    /\ rpkg' = [rpkg EXCEPT !.op = "to_binary", !.via = "from_binary", !.m = rpkg.dec.val,
                            !.enc = to_binary(rpkg.dec.val)]
    /\ UNCHANGED <<md5, call, HASH_LIST, CUSTOM_PATHS, loader, flagcall, flagenc, meta>>

\* RpkgResourceMeta::from_binary on the bytes to_binary returned
FromBinaryOfToBinary ==
    /\ rpkg.op = "to_binary"
    /\ rpkg.enc.ok
    /\ rpkg' = [rpkg EXCEPT !.op = "round_trip", !.dec = from_binary(rpkg.enc.val)]
    /\ UNCHANGED <<md5, call, HASH_LIST, CUSTOM_PATHS, loader, flagcall, flagenc, meta>>

\* the strings the codec hands to md5::compute: the lower-cased paths, and the
\* lower-cased 16 digits of a decoded identifier that does not start with '0'
CodecLoweredPaths == LoweredPaths \cup {to_ascii_lowercase(Rep(70, 16))}

InitCodec ==
    /\ md5 = [s \in CodecLoweredPaths |-> CHOOSE d \in DigestSet : d[1] = 102 /\ d[2] = 221]
    /\ call = Pending(<<>>)
    /\ CatalogueAtStart
    /\ flagcall = PendingFlag(0)
    /\ flagenc = Unused
    /\ meta = Unused
    /\ rpkg \in CodecInputs

NextCodec ==
    \/ FromBinary
    \/ FromResourceMetadata
    \/ AddReference
    \/ RemoveReference
    \/ ToBinary
    \/ ToBinaryOfFromBinary
    \/ FromBinaryOfToBinary

\* the codec of the RPKG metadata record
SpecCodec == InitCodec /\ [][NextCodec]_vars

--------------------------------------------------------------------------
(* Properties of the codec, under SpecCodec *)

\* the fields of a record that to_binary writes from the record as they are
\* stored: all but hash_path, hash_reference_table_size and
\* hash_reference_table_dummy
SameWrittenFields(a, b) ==
    /\ a.hash_value = b.hash_value
    /\ a.hash_offset = b.hash_offset
    /\ a.hash_size = b.hash_size
    /\ a.hash_resource_type = b.hash_resource_type
    /\ a.hash_size_final = b.hash_size_final
    /\ a.hash_size_in_memory = b.hash_size_in_memory
    /\ a.hash_size_in_video_memory = b.hash_size_in_video_memory
    /\ a.hash_reference_data = b.hash_reference_data

\* C17: for every RpkgResourceMeta m with 0, 1 or more references on which
\* to_binary succeeds, from_binary(to_binary(m)) equals m in every field except
\* hash_path and the fields hash_reference_table_size and
\* hash_reference_table_dummy.
C17_CodecRoundTrip ==
    rpkg.op = "round_trip" =>
        rpkg.dec.ok /\ SameWrittenFields(rpkg.dec.val, rpkg.m)

\* a small number written as a little-endian u32
Le32(n) == <<n % 256, n \div 256, 0, 0>>

\* C18: whatever hash_reference_table_size the record stores, the
\* reference_table_size that to_binary writes is 0 for a record without
\* references and 4 + 9 * N for one with N >= 1 references, the count word is
\* N | 0xC0000000, and the bytes after the 44-byte prefix are as many as the
\* written size says; this holds for a record that was decoded and then had a
\* reference added or removed.
C18_TableSizeRecomputed ==
    rpkg.op \in {"to_binary", "round_trip"} /\ rpkg.enc.ok =>
        LET N == Len(rpkg.m.hash_reference_data)
            t == Len(rpkg.m.hash_resource_type)
            out == rpkg.enc.val
        IN  /\ SubSeq(out, 21 + t, 24 + t) = IF N = 0 THEN Le32(0) ELSE Le32(4 + 9 * N)
            /\ Len(out) = 40 + t + (IF N = 0 THEN 0 ELSE 4 + 9 * N)
            /\ N >= 1 => SubSeq(out, 41 + t, 44 + t) = <<N, 0, 0, 192>>

\* a record decoded with one reference and the size 13 got a second reference
\* and was encoded with the size 22
C18_Witness ==
    /\ rpkg.op = "to_binary"
    /\ rpkg.via = "mutated"
    /\ rpkg.m.hash_reference_table_size = U32(13)
    /\ Len(rpkg.m.hash_reference_data) = 2
    /\ rpkg.enc.ok
    /\ SubSeq(rpkg.enc.val, 25, 28) = <<22, 0, 0, 0>>

\* the reference count of a buffer of at least 48 bytes, masked with 0x3FFFFFFF
CountOf(content) ==
    (((content[48] % 64) * 256 + content[47]) * 256 + content[46]) * 256 + content[45]

\* C19: from_binary returns a Seek error and no record for every buffer
\* shorter than the 44-byte prefix, and for every buffer whose
\* reference_table_size is not zero and that is shorter than 48 + 9 * N bytes,
\* N being the reference count masked with 0x3FFFFFFF.
C19_ShortBufferIsSeekError ==
    rpkg.op = "from_binary" =>
        LET content == rpkg.content
            len == Len(content)
            short == \/ len < 44
                     \/ /\ SubSeq(content, 25, 28) # <<0, 0, 0, 0>>
                        /\ \/ len < 48
                           \/ CountOf(content) > (len - 48) \div 9
        IN  short => /\ ~rpkg.dec.ok
                     /\ rpkg.dec.err = "Seek"
                     /\ rpkg.dec.val = DefaultRpkgMeta

\* a buffer that announces one reference and is one byte short of 57 was
\* rejected
C19_Witness ==
    /\ rpkg.op = "from_binary"
    /\ Len(rpkg.content) = 56
    /\ SubSeq(rpkg.content, 25, 28) = <<13, 0, 0, 0>>
    /\ SubSeq(rpkg.content, 45, 48) = <<1, 0, 0, 192>>
    /\ ~rpkg.dec.ok /\ rpkg.dec.err = "Seek"

\* the 8 bytes at offset p of a buffer are an identifier >= 0x00FFFFFFFFFFFFFF
IdOutOfRange(content, p) == ~BelowLimit(u64_from_le_bytes(SubSeq(content, p + 1, p + 8)))

\* C20: from_binary returns an error, not a record, whenever the record id or
\* the id of a reference is >= 0x00FFFFFFFFFFFFFF or the 4 bytes of the
\* resource type are not valid UTF-8.
C20_EmbeddedValuesValidated ==
    rpkg.op = "from_binary" /\ Len(rpkg.content) >= 44 =>
        LET content == rpkg.content
            N == IF SubSeq(content, 25, 28) # <<0, 0, 0, 0>> /\ Len(content) >= 48
                 THEN CountOf(content) ELSE 0
            whole == N <= (Len(content) - 48) \div 9
        IN  \/ IdOutOfRange(content, 0)
            \/ from_utf8_lossy(SubSeq(content, 17, 20)) # SubSeq(content, 17, 20)
            \/ whole /\ \E i \in 1..N : IdOutOfRange(content, 48 + N + 8 * (i - 1))
            => ~rpkg.dec.ok

\* a String that ResourceType::try_from accepts: 4 bytes of valid UTF-8
ValidTypeTag(t) == Len(t) = 4 /\ from_utf8_lossy(t) = t

\* C21: to_binary returns an error instead of bytes when hash_resource_type is
\* not a valid 4-byte type tag or when hash_value or a reference hash is not a
\* valid identifier, so that every output is 44 bytes plus the reference table
\* and has the type in bytes 20..24.
C21_ToBinaryValidates ==
    rpkg.op \in {"to_binary", "round_trip"} =>
        LET m == rpkg.m
            N == Len(m.hash_reference_data)
            invalid == \/ ~ValidTypeTag(m.hash_resource_type)
                       \/ ~RuntimeID_from_any(m.hash_value).ok
                       \/ \E i \in 1..N : ~RuntimeID_from_any(m.hash_reference_data[i].hash).ok
        IN  /\ invalid => ~rpkg.enc.ok
            /\ rpkg.enc.ok =>
                /\ Len(rpkg.enc.val) = 44 + (IF N = 0 THEN 0 ELSE 4 + 9 * N)
                /\ SubSeq(rpkg.enc.val, 21, 24) = m.hash_resource_type

\* the 16 upper-case hexadecimal digits of the little-endian u64 at offset p
HexAt(content, p) ==
    [k \in 1..16 |->
        LET byte == content[p + 8 - ((k - 1) \div 2)]
        IN  UpperHexDigit(IF k % 2 = 1 THEN byte \div 16 ELSE byte % 16)]

\* the little-endian u32 at offset p, most significant byte first
WordAt(content, p) == <<content[p + 4], content[p + 3], content[p + 2], content[p + 1]>>

\* the nibbles of the little-endian u64 at offset p, most significant first
NibblesAt(content, p) ==
    [k \in 1..16 |->
        LET byte == content[p + 8 - ((k - 1) \div 2)]
        IN  IF k % 2 = 1 THEN byte \div 16 ELSE byte % 16]

\* C22: for a buffer of at least 44 bytes that from_binary decodes, the scalar
\* fields are the little-endian values at the offsets 0 (id, as 16 upper-case
\* hex digits), 8 (offset), 16 (size), 20 (type, its 4 bytes), 24 (table size),
\* 28 (dummy), 32 (final size), 36 (system memory) and 40 (video memory); with
\* table size 0 hash_reference_data is empty; otherwise, with
\* N = count & 0x3FFFFFFF, the N flag bytes come first and the N ids after
\* them, and reference i has the i-th flag and the i-th id.
C22_FixedLayout ==
    rpkg.op = "from_binary" /\ rpkg.dec.ok =>
        LET content == rpkg.content
            r == rpkg.dec.val
        IN  /\ Len(content) >= 44
            /\ r.hash_value = HexAt(content, 0)
            /\ r.hash_offset = NibblesAt(content, 8)
            /\ r.hash_size = WordAt(content, 16)
            /\ r.hash_resource_type = SubSeq(content, 21, 24)
            /\ r.hash_reference_table_size = WordAt(content, 24)
            /\ r.hash_reference_table_dummy = WordAt(content, 28)
            /\ r.hash_size_final = WordAt(content, 32)
            /\ r.hash_size_in_memory = WordAt(content, 36)
            /\ r.hash_size_in_video_memory = WordAt(content, 40)
            /\ IF WordAt(content, 24) = <<0, 0, 0, 0>>
               THEN r.hash_reference_data = <<>>
               ELSE LET N == CountOf(content)
                    IN  /\ Len(r.hash_reference_data) = N
                        /\ \A i \in 1..N :
                            /\ u8_from_str_radix(r.hash_reference_data[i].flag).val
                                    = content[48 + i]
                            /\ r.hash_reference_data[i].hash
                                    = HexAt(content, 48 + N + 8 * (i - 1))

\* C23: when the reference_table_size field holds S # 0, from_binary reads
\* exactly S bytes of reference table after the 44-byte prefix, and the number
\* of references it returns is (S - 4) / 9.
C23_ConsumesTableSize ==
    rpkg.op = "from_binary" /\ rpkg.dec.ok
        /\ rpkg.dec.val.hash_reference_table_size # <<0, 0, 0, 0>> =>
        LET size == rpkg.dec.val.hash_reference_table_size
            S == ((size[1] * 256 + size[2]) * 256 + size[3]) * 256 + size[4]
        IN  /\ rpkg.dec.pos = 44 + S
            /\ Len(rpkg.dec.val.hash_reference_data) * 9 = S - 4

--------------------------------------------------------------------------
(* Properties of reloads, under SpecCatalogue *)

LoadFailures == {"DecompressionFailed", "DeserialisationFailed"}

\* the lists load_compressed can install: the decoded documents
Snapshots == {b.doc : b \in {x \in Blobs : x.brotli_ok /\ x.smile_ok}}

\* C24: a call of load_compressed that returns DecompressionFailed or
\* DeserialisationFailed leaves version and entries of the list exactly as
\* they were.
C24_FailedLoadChangesNothing ==
    [][ \A l \in Loaders :
            loader'[l] # loader[l] /\ loader'[l].result \in LoadFailures =>
                HASH_LIST' = HASH_LIST ]_vars

\* the last load of every caller has failed and the list holds snapshot 2:
\* one of the failures came after that snapshot was stored
C24_Witness ==
    /\ \A l \in Loaders : loader[l].result \in LoadFailures
    /\ HASH_LIST.version = 2
    /\ HASH_LIST.entries = CollectEntries((CHOOSE d \in Snapshots : d.version = 2).entries)

\* C25: what a reader loads from HASH_LIST.entries, at any moment of any
\* interleaving of loads, is the whole map of one snapshot or the empty map
\* the list starts with, never entries of two sources.
C25_EntriesOfOneSnapshot ==
    \/ HASH_LIST.entries = <<>>
    \/ \E d \in Snapshots : HASH_LIST.entries = CollectEntries(d.entries)

\* the map of snapshot 2 is in place while another load, of snapshot 1, is
\* between its two stores
C25_Witness ==
    /\ HASH_LIST.entries = CollectEntries((CHOOSE d \in Snapshots : d.version = 2).entries)
    /\ \E l \in Loaders : loader[l].pc = "store_entries" /\ loader[l].doc.version = 1

\* C26: in every state a reader can observe, and in the state left when all
\* loads have returned, version and entries of HASH_LIST come from the same
\* snapshot (or are both as constructed).
C26_VersionAndEntriesAgree ==
    \/ HASH_LIST = EmptyHashList
    \/ \E d \in Snapshots :
            /\ HASH_LIST.version = d.version
            /\ HASH_LIST.entries = CollectEntries(d.entries)

--------------------------------------------------------------------------
(* normalise_hashes and apply_hash_list *)

\* what a method on &mut self leaves behind: its result and the record as it
\* is after the call
Returned(ok, err, self) == [ok |-> ok, err |-> err, self |-> self]

\* the loop of normalise_hashes from reference i on: each hash is rewritten
\* in place, and the `?` returns at the first hash from_any rejects
RECURSIVE normalise_references(_, _)
normalise_references(self, i) ==
    IF i > Len(self.hash_reference_data) THEN Returned(TRUE, "none", self)
    ELSE LET id == RuntimeID_from_any(self.hash_reference_data[i].hash)
         IN  IF ~id.ok THEN Returned(FALSE, "InvalidResourceID", self)
             ELSE normalise_references(
                      [self EXCEPT !.hash_reference_data[i].hash = Display(id.id)], i + 1)

\* RpkgResourceMeta::normalise_hashes
normalise_hashes(self) ==
    LET id == RuntimeID_from_any(self.hash_value)
    IN  IF ~id.ok THEN Returned(FALSE, "InvalidResourceID", self)
        ELSE normalise_references([self EXCEPT !.hash_value = Display(id.id)], 1)

\* the loop of apply_hash_list from reference i on: a hash with a path in the
\* list is replaced by the path, and the `?` returns at the first hash
\* from_any rejects
RECURSIVE apply_references(_, _, _)
apply_references(self, hash_list, i) ==
    IF i > Len(self.hash_reference_data) THEN Returned(TRUE, "none", self)
    ELSE LET id == RuntimeID_from_any(self.hash_reference_data[i].hash)
         IN  IF ~id.ok THEN Returned(FALSE, "InvalidResourceID", self)
             ELSE apply_references(
                      IF id.id \in DOMAIN hash_list /\ hash_list[id.id].path.some
                      THEN [self EXCEPT !.hash_reference_data[i].hash = hash_list[id.id].path.val]
                      ELSE self,
                      hash_list, i + 1)

\* RpkgResourceMeta::apply_hash_list
apply_hash_list(self, hash_list) ==
    LET id == RuntimeID_from_any(self.hash_value)
    IN  IF ~id.ok THEN Returned(FALSE, "InvalidResourceID", self)
        ELSE apply_references(
                 IF id.id \in DOMAIN hash_list /\ hash_list[id.id].path.some
                 THEN [self EXCEPT !.hash_path = Some(hash_list[id.id].path.val)]
                 ELSE self,
                 hash_list, 1)

\* the records given to normalise_hashes and apply_hash_list: their hashes
\* are "00000000000000ab", "a" and "0z00000000000000", which from_any rejects
HashRecords ==
    LET HashStrings == {Rep(48, 14) \o <<97, 98>>, <<97>>, <<48, 122>> \o Rep(48, 14)}
    IN
    {[DefaultRpkgMeta EXCEPT !.hash_value = hash_value,
                             !.hash_resource_type = <<84, 69, 77, 80>>,
                             !.hash_reference_data = refs] :
        hash_value \in HashStrings,
        refs \in UNION {[1..n -> {RpkgReference(hash, <<49, 70>>) : hash \in HashStrings}] :
                        n \in 0..MaxCodecRefs}}

\* the maps given to apply_hash_list: an empty one, and one with "[x]" as the
\* path of 0x00000000000000AB and no path for 0x0000000000000001
HashListArgs ==
    {<<>>,
     CollectEntries(<<Entry(Rep(0, 14) \o <<10, 11>>, <<91, 120, 93>>),
                      Entry(Rep(0, 15) \o <<1>>, <<>>)>>)}

\* a record and a hash list the caller holds, no operation applied yet
HeldRecord(m, hash_list) ==
    [op |-> "none", m |-> m, hash_list |-> hash_list, ret |-> Returned(TRUE, "none", m)]

\* m.normalise_hashes() on the caller's record
NormaliseHashes ==
    /\ rpkg.op = "none"
    /\ rpkg' = [rpkg EXCEPT !.op = "normalise_hashes", !.ret = normalise_hashes(rpkg.m)]
    /\ UNCHANGED <<md5, call, HASH_LIST, CUSTOM_PATHS, loader, flagcall, flagenc, meta>>

\* m.apply_hash_list(hash_list) on the caller's record
ApplyHashList ==
    /\ rpkg.op = "none"
    /\ rpkg' = [rpkg EXCEPT !.op = "apply_hash_list",
                            !.ret = apply_hash_list(rpkg.m, rpkg.hash_list)]
    /\ UNCHANGED <<md5, call, HASH_LIST, CUSTOM_PATHS, loader, flagcall, flagenc, meta>>

InitHashes ==
    /\ md5 = [s \in CodecLoweredPaths |-> CHOOSE d \in DigestSet : d[1] = 102 /\ d[2] = 221]
    /\ call = Pending(<<>>)
    /\ CatalogueAtStart
    /\ flagcall = PendingFlag(0)
    /\ flagenc = Unused
    /\ meta = Unused
    /\ rpkg \in {HeldRecord(m, hash_list) : m \in HashRecords, hash_list \in HashListArgs}

NextHashes ==
    \/ NormaliseHashes
    \/ ApplyHashList

\* the in-place rewriting of the hashes of a record
SpecHashes == InitHashes /\ [][NextHashes]_vars

--------------------------------------------------------------------------
(* Properties of normalise_hashes and apply_hash_list, under SpecHashes *)

\* C27: when normalise_hashes or apply_hash_list returns an error, the record
\* (hash_value, hash_path and the hash of every reference) is exactly as it
\* was before the call.
C27_ErrorLeavesRecordUntouched ==
    rpkg.op \in {"normalise_hashes", "apply_hash_list"} /\ ~rpkg.ret.ok =>
        rpkg.ret.self = rpkg.m

--------------------------------------------------------------------------
(* Properties of the implemented rules of to_extended, under SpecExtended *)

\* the types whose two rules are written out, neither of them todo!()
ImplementedTypes == (SystemTable \ SystemTodo) \cap (VideoTable \ VideoTodo)

\* C28: for a type with an implemented rule and data of any length, also
\* fewer than 16 bytes for PREL and fewer than 12 for the types read at offset
\* 8, to_extended returns either a typed error or the value of the rule (PREL:
\* the length less 16; offset 8: the big-endian u32 of bytes 8..12); it never
\* aborts and never returns a wrapped length.
C28_NoAbortNoWrap ==
    meta.op = "to_extended" /\ meta.m.resource_type \in ImplementedTypes =>
        LET t == meta.m.resource_type
            data == meta.data
            sys == meta.ret.ext.system_memory_requirement
        IN  /\ meta.ret.kind \in {"Ok", "Err"}
            /\ meta.ret.kind = "Ok" /\ t = "PREL" =>
                    Len(data) >= 16 /\ sys = U32(Len(data) - 16)
            /\ meta.ret.kind = "Ok" /\ t \in SystemAtOffset8 =>
                    Len(data) >= 12 /\ sys = SubSeq(data, 9, 12)

--------------------------------------------------------------------------
(* Properties of from_any on modern bytes, under SpecFlagCodec *)

\* the flags from_modern can build
BuiltByFromModern == {from_modern(b) : b \in 0..255}

\* C29: for every f that from_modern builds (Install, Normal or Weak, either
\* value of acquired, a language code 0..31), from_any(f.as_modern()) is f:
\* the flags of a reference written in the modern format are read back
\* unchanged by the conversion from RpkgResourceMeta.
C29_FromAnyOfModern ==
    flagenc.op = "from_any" /\ flagenc.f \in BuiltByFromModern =>
        flagenc.back = flagenc.f

--------------------------------------------------------------------------
(* The byte-level round trip, under SpecCodec *)

\* a well-formed buffer: the record id and every reference id below the
\* limit, 4 ASCII type bytes, and either table size 0 and nothing after the
\* prefix, or table size 4 + 9 * N with the count word N | 0xC0000000, N >= 1,
\* followed by exactly N flag bytes and N ids
WellFormed(b) ==
    /\ Len(b) >= 44
    /\ BelowLimit(NibblesAt(b, 0))
    /\ \A i \in 21..24 : b[i] < 128
    /\ \/ WordAt(b, 24) = U32(0) /\ Len(b) = 44
       \/ \E N \in 1..((Len(b) - 48) \div 9) :
            /\ Len(b) = 48 + 9 * N
            /\ WordAt(b, 24) = U32(4 + 9 * N)
            /\ WordAt(b, 44) = <<192, 0, N \div 256, N % 256>>
            /\ \A i \in 1..N : BelowLimit(NibblesAt(b, 48 + N + 8 * (i - 1)))

\* C30: for every well-formed buffer b, from_binary(b) succeeds, to_binary of
\* the decoded record succeeds, and the bytes it returns are b, bit for bit.
C30_ByteRoundTrip ==
    WellFormed(rpkg.content) =>
        /\ rpkg.op = "from_binary" => rpkg.dec.ok
        /\ rpkg.op = "to_binary" /\ rpkg.via = "from_binary" =>
                rpkg.enc.ok /\ rpkg.enc.val = rpkg.content

\* a well-formed buffer with two references has been decoded and written again
C30_Witness ==
    /\ rpkg.op = "to_binary"
    /\ rpkg.via = "from_binary"
    /\ WellFormed(rpkg.content)
    /\ Len(rpkg.content) = 66
    /\ rpkg.enc.val = rpkg.content


==========================================================================
